---------------------------- MODULE Spec2Model ----------------------------
(***************************************************************************)
(* Model of the music-visualizer instrument detectors.                     *)
(*                                                                         *)
(*   - the real-time detector, src/src/utils/AudioProcessor.js: one tick   *)
(*     (getInstrumentEnergy) extracts seven band energies from a byte      *)
(*     frequency frame, pushes them on the per-band histories, estimates   *)
(*     a confidence from each history and resolves overlaps;               *)
(*   - the batch rule layer, src/server/audioProcessor.js:                 *)
(*     detectInstruments over six band energies, and processAudio with the *)
(*     handlers of the metadata probe, the six band analyses and the stem  *)
(*     separation (SpecAudio, SpecAudioFair);                              *)
(*   - the upload handler of src/server/index.js, which awaits             *)
(*     processAudio (SpecUpload);                                          *)
(*   - the CosmicVisualizer component: its animation loop                  *)
(*     (SpecVisualizer) and the band energies it computes itself when it   *)
(*     has no AudioProcessor (SpecFallback).                               *)
(*                                                                         *)
(* Spec is the detector as a whole.  SpecExtract, SpecConfidence,          *)
(* SpecWindow, SpecOverlap and SpecDetect apply one function of the code   *)
(* to bounded sets of inputs; SpecFrame runs the per-band calls of a tick  *)
(* on frames whose length need not match the bufferLength passed with      *)
(* them.                                                                   *)
(*                                                                         *)
(* JavaScript numbers are modelled as exact rationals [n |-> , d |-> ]     *)
(* in lowest terms; NaN is the record with d = 0.  IEEE-754 rounding is    *)
(* not modelled, so a computed value may differ from the double the code   *)
(* holds in its last place.  The byte levels and frequencies used below    *)
(* are chosen so that every comparison the code makes (energy against      *)
(* threshold, sample against 1.5 times its predecessor, bass against 1.2   *)
(* times guitar, the clamps of the confidence) has the same outcome in     *)
(* doubles: no frame sequence of the model has a sample exactly 1.5 times  *)
(* a non-zero predecessor, where the rounding of the product would decide. *)
(***************************************************************************)
EXTENDS Integers, Sequences, FiniteSets, TLC

VARIABLES
    isInitialized,      \* AudioProcessor.isInitialized
    audioContext,       \* Null, or [sampleRate |-> Hz]
    analyser,           \* Null, or [frequencyBinCount |-> bins]
    detectionHistory,   \* band -> sequence of energies, oldest first
    estimate,           \* the results processInstrumentData returned in the last tick
    result,             \* the mapping the last getInstrumentEnergy returned
    ticks,              \* number of ticks on an initialized processor so far
    pushed,             \* band -> every energy pushed so far, in push order
    lastShape,          \* shape of the frame of the last tick
    changes,            \* number of ticks whose frame shape differed from the previous one
    zeroRun,            \* number of consecutive all-zero frames up to the last tick
    frequencyBands,     \* batch mode: the six band analyses handed to detectInstruments
    detection,          \* batch mode: what detectInstruments returned
    extractIn,          \* extraction on its own: the arguments of processInstrumentData
    extractOut,         \* extraction on its own: energy and indices read
    given,              \* the frame handed to the last tick: [length, bufferLength]
    thrown,             \* the exception the last call threw, Null when it returned
    pc,                 \* batch mode: where processAudio stands
    metadata,           \* batch mode: what getAudioMetadata resolved with
    bandPromises,       \* batch mode: band -> state of its analyzeFrequencyBand promise
    separation,         \* batch mode: state of separateStems
    stems,              \* batch mode: the stems of processAudio (line 39)
    outcome,            \* batch mode: what the promise of processAudio settled with
    written,            \* batch mode: analysis.json has been written
    visualizer,         \* Null, or the mounted CosmicVisualizer and its animation loop
    upload              \* Null, or the POST /api/upload request being handled

vars == <<isInitialized, audioContext, analyser, detectionHistory, estimate, result,
          ticks, pushed, lastShape, changes, zeroRun, frequencyBands, detection,
          extractIn, extractOut, given, thrown,
          pc, metadata, bandPromises, separation, stems, outcome, written,
          visualizer, upload>>

pipelineVars == <<pc, metadata, bandPromises, separation, stems, outcome, written>>

pageVars == <<visualizer, upload>>

frameVars == <<given, thrown>>
detectorVars == <<isInitialized, audioContext, analyser, detectionHistory, estimate,
                  result, ticks, pushed, lastShape, changes, zeroRun, frameVars>>
batchVars == <<frequencyBands, detection>>
extractVars == <<extractIn, extractOut>>

Null == [null |-> TRUE]

-----------------------------------------------------------------------------
(* Bounds of the model. *)

MaxTicks == 25
MaxChanges == 1
MaxBufferLength == 4
MaxFrequency == 5
MaxFrames == 4
MaxRequests == 12
MaxDrawn == 3

-----------------------------------------------------------------------------
(* Exact rational arithmetic standing for JavaScript numbers. *)

Abs(x) == IF x < 0 THEN -x ELSE x

RECURSIVE GCD(_, _)
GCD(a, b) == IF b = 0 THEN a ELSE GCD(b, a % b)

LCM(a, b) == (a \div GCD(a, b)) * b

NaN == [n |-> 0, d |-> 0]

IsNaN(x) == x.d = 0

Rat(n, d) ==
    IF d = 0 THEN NaN
    ELSE LET g == GCD(Abs(n), Abs(d))
             s == IF d < 0 THEN -1 ELSE 1
         IN [n |-> s * (n \div g), d |-> s * (d \div g)]

Zero == Rat(0, 1)

RatAdd(x, y) ==
    IF IsNaN(x) \/ IsNaN(y) THEN NaN
    ELSE LET l == LCM(x.d, y.d)
         IN Rat(x.n * (l \div x.d) + y.n * (l \div y.d), l)

RatMul(x, y) ==
    IF IsNaN(x) \/ IsNaN(y) THEN NaN
    ELSE LET a == Rat(x.n, y.d)
             b == Rat(y.n, x.d)
         IN [n |-> a.n * b.n, d |-> a.d * b.d]

RatDivInt(x, k) == RatMul(x, Rat(1, k))

\* x < y; false when either is NaN, as in JavaScript
RatLT(x, y) ==
    /\ ~IsNaN(x)
    /\ ~IsNaN(y)
    /\ LET l == LCM(x.d, y.d)
       IN x.n * (l \div x.d) < y.n * (l \div y.d)

RatGT(x, y) == RatLT(y, x)

RatLE(x, y) == ~IsNaN(x) /\ ~IsNaN(y) /\ ~RatLT(y, x)

\* Math.max(x, y) and Math.min(x, y)
RatMax(x, y) == IF IsNaN(x) \/ IsNaN(y) THEN NaN ELSE IF RatLT(x, y) THEN y ELSE x

RatMin(x, y) == IF IsNaN(x) \/ IsNaN(y) THEN NaN ELSE IF RatLT(y, x) THEN y ELSE x

InUnit(x) == RatLE(Zero, x) /\ RatLE(x, Rat(1, 1))

-----------------------------------------------------------------------------
(* The instrument configuration of the constructor. *)

Hz(lowFreq, highFreq) == <<lowFreq, highFreq>>

instruments ==
    [vocals |-> [freqRange |-> Hz(300, 3500), threshold |-> Rat(45, 100)],
     guitar |-> [freqRange |-> Hz(300, 4000), threshold |-> Rat(50, 100)],
     bass   |-> [freqRange |-> Hz(60, 250),   threshold |-> Rat(50, 100)],
     drums  |-> [kick  |-> [freqRange |-> Hz(20, 100),   threshold |-> Rat(60, 100)],
                 snare |-> [freqRange |-> Hz(120, 250),  threshold |-> Rat(50, 100)],
                 hihat |-> [freqRange |-> Hz(800, 5000), threshold |-> Rat(40, 100)]],
     synth  |-> [freqRange |-> Hz(100, 8000), threshold |-> Rat(45, 100)]]

DrumTypes == {"kick", "snare", "hihat"}

\* the keys of detectionHistory: every instrument, drums replaced by its components
Bands == ((DOMAIN instruments) \ {"drums"}) \cup DOMAIN instruments.drums

\* a value for each of the seven bands, in the order the tick visits them:
\* Object.keys(this.instruments) with drums replaced by its components
PerBand(f) ==
    [vocals |-> f["vocals"], guitar |-> f["guitar"], bass |-> f["bass"],
     kick |-> f["kick"], snare |-> f["snare"], hihat |-> f["hihat"],
     synth |-> f["synth"]]

\* ['kick', 'snare', 'hihat'].includes(instrument)
IsPercussion(instrument) == instrument \in {"kick", "snare", "hihat"}

BandConfig(instrument) ==
    IF IsPercussion(instrument) THEN instruments.drums[instrument]
    ELSE instruments[instrument]

HistoryCapacity == 20
MinHistory == 5
RecentWindow == 5
ByteMax == 255
FftSize == 2048
Nyquist == 22050

EmptyMapping == [k \in {} |-> k]

-----------------------------------------------------------------------------
(* processInstrumentData, lines 175-190: the band energy of a frame. *)

\* Math.floor(freq / (sampleRate / 2) * bufferLength)
FreqIndex(freq, sampleRate, bufferLength) == (2 * freq * bufferLength) \div sampleRate

\* the loop without its i < bufferLength condition
LoopEndUnchecked(highIndex, bufferLength) == highIndex

\* the for loop: i runs from lowIndex while i < highIndex && i < bufferLength,
\* so it stops at the first index that is not below both
LoopEnd(highIndex, bufferLength) ==
    IF highIndex < bufferLength THEN highIndex ELSE bufferLength

\* dataArray[i]; reading outside the frame gives undefined
InFrame(dataArray, i) == i \in DOMAIN dataArray

\* total of dataArray[i] for from <= i < to, summed by halves
RECURSIVE SumBins(_, _, _)
SumBins(dataArray, from, to) ==
    IF to <= from THEN 0
    ELSE IF to = from + 1
         THEN (IF InFrame(dataArray, from) THEN dataArray[from] ELSE 0)
         ELSE LET mid == (from + to) \div 2
              IN SumBins(dataArray, from, mid) + SumBins(dataArray, mid, to)

\* the loop's total and count; nan when it added undefined to the total
BandSum(dataArray, bufferLength, freqRange, sampleRate) ==
    LET lowIndex  == FreqIndex(freqRange[1], sampleRate, bufferLength)
        highIndex == FreqIndex(freqRange[2], sampleRate, bufferLength)
        end == LoopEnd(highIndex, bufferLength)
    IN [lowIndex |-> lowIndex, highIndex |-> highIndex,
        total |-> SumBins(dataArray, lowIndex, end),
        count |-> IF end > lowIndex THEN end - lowIndex ELSE 0,
        nan |-> \E i \in lowIndex..(end - 1) : ~InFrame(dataArray, i)]

\* count > 0 ? total / count / 255 : 0
EnergyOf(sum) ==
    IF sum.count > 0
    THEN (IF sum.nan THEN NaN ELSE Rat(sum.total, sum.count * ByteMax))
    ELSE Zero

RawEnergy(dataArray, bufferLength, freqRange, sampleRate) ==
    EnergyOf(BandSum(dataArray, bufferLength, freqRange, sampleRate))

\* the frame indices the loop read
ReadIndices(sum) == sum.lowIndex .. (sum.lowIndex + sum.count - 1)

-----------------------------------------------------------------------------
(* updateDetectionHistory and getDetectionConfidence. *)

\* history.unshift(energy), dropping the last sample beyond the capacity
updateDetectionHistoryUnshift(history, energy) ==
    LET pushedHistory == <<energy>> \o history
    IN IF Len(pushedHistory) > HistoryCapacity
       THEN SubSeq(pushedHistory, 1, HistoryCapacity)
       ELSE pushedHistory

\* the history emptied when it is full, instead of dropping its oldest sample
updateDetectionHistoryClearing(history, energy) ==
    IF Len(history) >= HistoryCapacity THEN <<energy>>
    ELSE Append(history, energy)

updateDetectionHistory(history, energy) ==
    LET pushedHistory == Append(history, energy)
    IN IF Len(pushedHistory) > HistoryCapacity THEN Tail(pushedHistory)
       ELSE pushedHistory

\* history.slice(-5)
Slice(history, k) ==
    IF Len(history) <= k THEN history
    ELSE SubSeq(history, Len(history) - k + 1, Len(history))

\* the values as integers over their common denominator
CommonDenominator(values) ==
    LET RECURSIVE Fold(_, _)
        Fold(i, l) == IF i > Len(values) THEN l ELSE Fold(i + 1, LCM(l, values[i].d))
    IN Fold(1, 1)

RECURSIVE SumInts(_, _)
SumInts(ints, i) == IF i > Len(ints) THEN 0 ELSE ints[i] + SumInts(ints, i + 1)

\* the mean of the squares, without subtracting the mean
MeanSquare(values) ==
    LET N == Len(values)
        D == CommonDenominator(values)
        a == [i \in 1..N |-> values[i].n * (D \div values[i].d)]
    IN Rat(SumInts([i \in 1..N |-> a[i] * a[i]], 1), N * D * D)

\* the sum of squared deviations divided by one less than their number
SampleVariance(values) ==
    IF \E i \in 1..Len(values) : IsNaN(values[i]) THEN NaN
    ELSE LET N == Len(values)
             D == CommonDenominator(values)
             a == [i \in 1..N |-> values[i].n * (D \div values[i].d)]
             S == SumInts(a, 1)
             squares == [i \in 1..N |-> (N * a[i] - S) * (N * a[i] - S)]
         IN Rat(SumInts(squares, 1), (N - 1) * (N * D) * (N * D))

\* sum of (val - mean)^2 over the values, divided by their number; with
\* val = a / D and mean = S / (N * D), val - mean = (N * a - S) / (N * D)
Variance(values) ==
    IF \E i \in 1..Len(values) : IsNaN(values[i]) THEN NaN
    ELSE LET N == Len(values)
             D == CommonDenominator(values)
             a == [i \in 1..N |-> values[i].n * (D \div values[i].d)]
             S == SumInts(a, 1)
             squares == [i \in 1..N |-> (N * a[i] - S) * (N * a[i] - S)]
         IN Rat(SumInts(squares, 1), N * (N * D) * (N * D))

\* val >= prev * 1.5
IsTransientInclusive(val, prev) == 2 * val.n * prev.d >= 3 * prev.n * val.d

\* val > prev * 1.5 for a prev above 0 only
IsTransientAboveFloor(val, prev) == prev.n > 0 /\ 2 * val.n * prev.d > 3 * prev.n * val.d

\* recentValues.some((val, i, arr) => i > 0 && val > arr[i-1] * 1.5), the
\* comparison of val = val.n / val.d with 3/2 * prev cross-multiplied
IsTransient(val, prev) == 2 * val.n * prev.d > 3 * prev.n * val.d

HasTransient(recentValues) ==
    \E i \in 2..Len(recentValues) : IsTransient(recentValues[i], recentValues[i - 1])

\* Math.min(0.9, Math.max(0.3, 0.9 - variance * 5))
StableConfidenceFromCap(variance) ==
    LET raw == Rat(9 * variance.d - 50 * variance.n, 10 * variance.d)
    IN RatMin(Rat(9, 10), RatMax(Rat(3, 10), raw))

\* Math.min(0.9, Math.max(0.3, 0.7 - variance * 5)), with
\* 0.7 - 5 * n / d = (7 * d - 50 * n) / (10 * d)
StableConfidence(variance) ==
    LET raw == Rat(7 * variance.d - 50 * variance.n, 10 * variance.d)
    IN RatMin(Rat(9, 10), RatMax(Rat(3, 10), raw))

\* history.length < 4
HasShortHistory(history) == Len(history) < MinHistory - 1

HasLimitedHistory(history) == Len(history) < MinHistory

\* the window taken one sample longer
getDetectionConfidenceOverSix(instrument, history) ==
    IF HasLimitedHistory(history) THEN Rat(1, 2)
    ELSE LET recentValues == Slice(history, RecentWindow + 1)
         IN IF IsPercussion(instrument)
            THEN (IF HasTransient(recentValues) THEN Rat(8, 10) ELSE Rat(4, 10))
            ELSE StableConfidence(Variance(recentValues))

getDetectionConfidence(instrument, history) ==
    IF HasLimitedHistory(history) THEN Rat(1, 2)
    ELSE LET recentValues == Slice(history, RecentWindow)
         IN IF IsPercussion(instrument)
            THEN (IF HasTransient(recentValues) THEN Rat(8, 10) ELSE Rat(4, 10))
            ELSE StableConfidence(Variance(recentValues))

\* rawEnergy >= threshold
IsActiveInclusive(rawEnergy, threshold) == RatLE(threshold, rawEnergy)

IsActive(rawEnergy, threshold) == RatGT(rawEnergy, threshold)

\* the confidence taken before the energy is pushed onto the history
processInstrumentDataStale(instrument, rawEnergy, history) ==
    LET newHistory == updateDetectionHistory(history, rawEnergy)
        threshold == BandConfig(instrument).threshold
    IN [energy |-> rawEnergy,
        active |-> IsActive(rawEnergy, threshold),
        confidence |-> getDetectionConfidence(instrument, history),
        history |-> newHistory]

\* processInstrumentData from the raw energy on (lines 192-207): its return
\* value and the history it leaves
processInstrumentData(instrument, rawEnergy, history) ==
    LET newHistory == updateDetectionHistory(history, rawEnergy)
        threshold == BandConfig(instrument).threshold
    IN [energy |-> rawEnergy,
        active |-> IsActive(rawEnergy, threshold),
        confidence |-> getDetectionConfidence(instrument, newHistory),
        history |-> newHistory]

-----------------------------------------------------------------------------
(* processOverlaps: pairwise suppression and the drums group. *)

Has(mapping, key) == key \in DOMAIN mapping

\* the energy comparison alone
BassLouder(bass, guitar) == RatGT(bass.energy, RatMul(guitar.energy, Rat(12, 10)))

BassDominates(bass, guitar) ==
    /\ bass.active
    /\ guitar.active
    /\ RatGT(bass.energy, RatMul(guitar.energy, Rat(12, 10)))

\* the damping applied to bass instead of guitar
SuppressBass(mapping) ==
    IF Has(mapping, "bass") /\ Has(mapping, "guitar")
    THEN (IF BassDominates(mapping.bass, mapping.guitar)
          THEN [mapping EXCEPT !.bass.confidence = RatMul(@, Rat(7, 10))]
          ELSE mapping)
    ELSE mapping

\* the damping applied twice over
SuppressTwice(mapping) ==
    IF Has(mapping, "bass") /\ Has(mapping, "guitar")
    THEN (IF BassDominates(mapping.bass, mapping.guitar)
          THEN [mapping EXCEPT !.guitar.confidence = RatMul(@, Rat(49, 100))]
          ELSE mapping)
    ELSE mapping

Suppress(mapping) ==
    IF Has(mapping, "bass") /\ Has(mapping, "guitar")
    THEN (IF BassDominates(mapping.bass, mapping.guitar)
          THEN [mapping EXCEPT !.guitar.confidence = RatMul(@, Rat(7, 10))]
          ELSE mapping)
    ELSE mapping

HasDrumComponents(mapping) ==
    Has(mapping, "kick") /\ Has(mapping, "snare") /\ Has(mapping, "hihat")

\* the group with the kick's energy
DrumsOfKick(kick, snare, hihat) ==
    [energy |-> kick.energy,
     active |-> kick.active \/ snare.active \/ hihat.active,
     confidence |-> RatMax(RatMax(kick.confidence, snare.confidence), hihat.confidence),
     components |-> [kick |-> kick, snare |-> snare, hihat |-> hihat]]

\* the group active only when all three components are
DrumsOfAllActive(kick, snare, hihat) ==
    [energy |-> RatMax(RatMax(kick.energy, snare.energy), hihat.energy),
     active |-> kick.active /\ snare.active /\ hihat.active,
     confidence |-> RatMax(RatMax(kick.confidence, snare.confidence), hihat.confidence),
     components |-> [kick |-> kick, snare |-> snare, hihat |-> hihat]]

DrumsOf(kick, snare, hihat) ==
    [energy |-> RatMax(RatMax(kick.energy, snare.energy), hihat.energy),
     active |-> kick.active \/ snare.active \/ hihat.active,
     confidence |-> RatMax(RatMax(kick.confidence, snare.confidence), hihat.confidence),
     components |-> [kick |-> kick, snare |-> snare, hihat |-> hihat]]

Group(mapping) ==
    IF HasDrumComponents(mapping)
    THEN [k \in (DOMAIN mapping) \cup {"drums"} |->
            IF k = "drums" THEN DrumsOf(mapping.kick, mapping.snare, mapping.hihat)
            ELSE mapping[k]]
    ELSE mapping

processOverlaps(mapping) == Group(Suppress(mapping))

-----------------------------------------------------------------------------
(* The frames analyser.getByteFrequencyData delivers.  A frame shape gives *)
(* the byte level of the bins below the bass band's upper edge (low) and   *)
(* of the bins from there on (high), each as the pair of levels of the     *)
(* even and the odd bins.                                                  *)

Shape(lowEven, lowOdd, highEven, highOdd) ==
    [low |-> <<lowEven, lowOdd>>, high |-> <<highEven, highOdd>>]

Silence == Shape(0, 0, 0, 0)
BassOverGuitar == Shape(204, 255, 102, 153)
GuitarOverBass == Shape(102, 153, 204, 255)
BassDominant == Shape(204, 255, 153, 204)
BassAlone == Shape(204, 255, 0, 0)

Shapes == {Silence, BassOverGuitar, GuitarOverBass, BassDominant, BassAlone}

\* the frames fed to the main analyser of initialize and to an existing one
ShapesFor(bins) ==
    IF bins = FftSize \div 2 THEN {Silence, BassOverGuitar, GuitarOverBass, BassDominant}
    ELSE {BassAlone, BassDominant}

FrameData(shape, bufferLength, sampleRate) ==
    LET edge == FreqIndex(instruments.bass.freqRange[2], sampleRate, bufferLength)
    IN [i \in 0..(bufferLength - 1) |->
          IF i < edge THEN shape.low[(i % 2) + 1] ELSE shape.high[(i % 2) + 1]]

SampleRates == {48000}
ExistingBinCounts == {128}

-----------------------------------------------------------------------------
(* The detector: construction, initialization and the tick. *)

\* a history for every key of this.instruments, the drums group included
InitDetectorWithDrums ==
    /\ isInitialized = FALSE
    /\ audioContext = Null
    /\ analyser = Null
    /\ detectionHistory = [b \in Bands \cup {"drums"} |-> <<>>]
    /\ estimate = EmptyMapping
    /\ result = EmptyMapping
    /\ ticks = 0
    /\ pushed = PerBand([b \in Bands |-> <<>>])
    /\ lastShape = Null
    /\ changes = 0
    /\ zeroRun = 0
    /\ given = Null
    /\ thrown = Null

InitDetector ==
    /\ isInitialized = FALSE
    /\ audioContext = Null
    /\ analyser = Null
    /\ detectionHistory = PerBand([b \in Bands |-> <<>>])
    /\ estimate = EmptyMapping
    /\ result = EmptyMapping
    /\ ticks = 0
    /\ pushed = PerBand([b \in Bands |-> <<>>])
    /\ lastShape = Null
    /\ changes = 0
    /\ zeroRun = 0
    /\ given = Null
    /\ thrown = Null

ghostVars == <<ticks, pushed, lastShape, changes, zeroRun>>

\* initialize(audioElement): a new context and a main analyser with fftSize 2048
initialize ==
    /\ UNCHANGED <<detectionHistory, estimate, result, ghostVars>>
    /\ \/ /\ isInitialized
          /\ UNCHANGED <<isInitialized, audioContext, analyser>>
       \/ /\ ~isInitialized
          /\ \E rate \in SampleRates : audioContext' = [sampleRate |-> rate]
          /\ analyser' = [frequencyBinCount |-> FftSize \div 2]
          /\ isInitialized' = TRUE

\* initializeWithExistingContext(audioContext, audioElement, existingAnalyser)
initializeWithExistingContext ==
    /\ UNCHANGED <<detectionHistory, estimate, result, ghostVars>>
    /\ \/ /\ isInitialized
          /\ UNCHANGED <<isInitialized, audioContext, analyser>>
       \/ /\ ~isInitialized
          /\ \E rate \in SampleRates : audioContext' = [sampleRate |-> rate]
          /\ \E bins \in ExistingBinCounts : analyser' = [frequencyBinCount |-> bins]
          /\ isInitialized' = TRUE

\* getMainAnalyser(): returns this.analyser
getMainAnalyser == UNCHANGED vars

FreqRangeOf(instrument) == BandConfig(instrument).freqRange

\* The raw energies of the seven bands (processInstrumentData, lines 175-190)
\* for every frame shape and analyser the model feeds, computed once.
EnergyTable ==
    { [sampleRate |-> rate, bufferLength |-> bins, shape |-> shape,
       energy |-> LET dataArray == FrameData(shape, bins, rate)
                  IN PerBand([b \in Bands |->
                                 RawEnergy(dataArray, bins, FreqRangeOf(b), rate)])] :
        rate \in SampleRates,
        bins \in ExistingBinCounts \cup {FftSize \div 2},
        shape \in Shapes }

FrameEnergy(shape, bufferLength, sampleRate) ==
    (CHOOSE row \in EnergyTable :
        /\ row.sampleRate = sampleRate
        /\ row.bufferLength = bufferLength
        /\ row.shape = shape).energy

Triple(r) == [energy |-> r.energy, active |-> r.active, confidence |-> r.confidence]

\* the seven processInstrumentData calls of one tick
ProcessAll(rawEnergy) ==
    PerBand([b \in Bands |->
                processInstrumentData(b, rawEnergy[b], detectionHistory[b])])

getInstrumentEnergy ==
    /\ UNCHANGED <<isInitialized, audioContext, analyser>>
    /\ \/ /\ ~isInitialized
          /\ result' = EmptyMapping
          /\ UNCHANGED <<detectionHistory, estimate, ghostVars>>
       \/ /\ isInitialized
          /\ ticks < MaxTicks
          /\ \E shape \in ShapesFor(analyser.frequencyBinCount) :
               LET changed == IF ticks > 0 /\ shape # lastShape THEN 1 ELSE 0
               IN /\ changes + changed <= MaxChanges
                  /\ changes' = changes + changed
                  /\ lastShape' = shape
                  /\ zeroRun' = IF shape = Silence THEN zeroRun + 1 ELSE 0
                  /\ ticks' = ticks + 1
                  /\ \E rawEnergy \in {FrameEnergy(shape, analyser.frequencyBinCount,
                                                     audioContext.sampleRate)} :
                     \E processed \in {ProcessAll(rawEnergy)} :
                     \E results \in {PerBand([b \in Bands |-> Triple(processed[b])])} :
                        /\ detectionHistory' = PerBand([b \in Bands |-> processed[b].history])
                        /\ pushed' = PerBand([b \in Bands |-> Append(pushed[b], processed[b].energy)])
                        /\ estimate' = results
                        /\ result' = processOverlaps(results)

\* processAudio has not been called
NotCalled ==
    /\ pc = "idle"
    /\ metadata = Null
    /\ bandPromises = Null
    /\ separation = Null
    /\ stems = Null
    /\ outcome = Null
    /\ written = FALSE

\* no CosmicVisualizer is mounted
NotMounted == visualizer = Null

\* no upload request has arrived
NotRequested == upload = Null

InitIdle ==
    /\ frequencyBands = Null
    /\ detection = Null
    /\ extractIn = Null
    /\ extractOut = Null
    /\ NotCalled
    /\ NotMounted
    /\ NotRequested

Init == InitDetector /\ InitIdle

Next ==
    \/ initialize /\ UNCHANGED <<batchVars, extractVars, frameVars, pipelineVars, pageVars>>
    \/ initializeWithExistingContext /\ UNCHANGED <<batchVars, extractVars, frameVars, pipelineVars, pageVars>>
    \/ getMainAnalyser
    \/ getInstrumentEnergy /\ UNCHANGED <<batchVars, extractVars, frameVars, pipelineVars, pageVars>>

Spec == Init /\ [][Next]_vars

-----------------------------------------------------------------------------
(* The batch rule layer: detectInstruments(frequencyBands, stems).  The    *)
(* stems argument is not read by the code and is left out.                 *)

BatchBands == {"sub_bass", "bass", "low_mids", "mids", "high_mids", "highs"}

Undetected == [detected |-> FALSE, confidence |-> Zero]

\* a confidence capped at one half
DetectedAtHalf(confidence) ==
    [detected |-> TRUE, confidence |-> RatMin(confidence, Rat(1, 2))]

Detected(confidence) == [detected |-> TRUE, confidence |-> confidence]

\* Math.max(x, y) in place of the average
Greater(x, y) == RatMax(x, y)

\* (x + y) / 2
Average(x, y) == RatDivInt(RatAdd(x, y), 2)

detectInstruments(bands) ==
    [vocals |-> IF RatGT(bands.mids.energy, Rat(7, 10))
                THEN Detected(bands.mids.energy) ELSE Undetected,
     guitar |-> IF RatGT(bands.low_mids.energy, Rat(6, 10))
                   /\ RatGT(bands.mids.energy, Rat(5, 10))
                THEN Detected(Average(bands.low_mids.energy, bands.mids.energy))
                ELSE Undetected,
     bass   |-> IF RatGT(bands.bass.energy, Rat(6, 10))
                THEN Detected(bands.bass.energy) ELSE Undetected,
     drums  |-> IF RatGT(bands.sub_bass.energy, Rat(6, 10))
                   \/ RatGT(bands.highs.energy, Rat(7, 10))
                THEN Detected(RatMax(bands.sub_bass.energy, bands.highs.energy))
                ELSE Undetected,
     synth  |-> IF RatGT(bands.high_mids.energy, Rat(7, 10))
                   /\ RatGT(bands.highs.energy, Rat(6, 10))
                THEN Detected(Average(bands.high_mids.energy, bands.highs.energy))
                ELSE Undetected,
     piano  |-> Undetected]

\* band energies fed to the rules, in twentieths: 0.2, 0.3, 0.5, 0.6, 0.65,
\* 0.7, 0.75 and 0.8
EnergyLevels == {Rat(k, 20) : k \in {4, 6, 10, 12, 13, 14, 15, 16}}

InitDetect ==
    /\ InitDetector
    /\ frequencyBands \in [BatchBands -> [energy : EnergyLevels]]
    /\ detection = Null
    /\ extractIn = Null
    /\ extractOut = Null
    /\ NotCalled
    /\ NotMounted
    /\ NotRequested

detect ==
    /\ detection = Null
    /\ detection' = detectInstruments(frequencyBands)
    /\ UNCHANGED <<detectorVars, frequencyBands, extractVars, pipelineVars, pageVars>>

NextDetect == detect

SpecDetect == InitDetect /\ [][NextDetect]_vars

-----------------------------------------------------------------------------
(* Batch mode: processAudio on one uploaded file.  Each action is one      *)
(* handler of the event loop together with the promise continuations it    *)
(* triggers, which run before any other event is handled.                  *)

\* the values Math.random() * 0.5 + 0.5 is drawn from
PipelineEnergies == {Rat(1, 2), Rat(4, 5)}

StemTypes == {"vocals", "drums", "bass", "other"}

AudioInfo == [format |-> "audio"]
SpleeterStems == [from |-> "spleeter"]
BasicStems == [from |-> "basic"]

\* the catch of processAudio rethrowing instead of returning
Rethrow(error) == [rejected |-> TRUE, error |-> error]

\* catch (error) { return { success: false, error: error.message } }
Catch(error) == [success |-> FALSE, error |-> error]

\* return { success: true, analysisResult, analysisPath }
Success(analysisResult) ==
    [success |-> TRUE, analysisResult |-> analysisResult, analysisPath |-> "analysis.json"]

Pending(promises) == {b \in DOMAIN promises : promises[b].status \in {"filtering", "probing"}}
Resolved(promises) == {b \in DOMAIN promises : promises[b].status = "resolved"}
Rejected(promises) == {b \in DOMAIN promises : promises[b].status = "rejected"}

\* Promise.all(bandPromises) without its .catch(reject)
JoinRejectsNever(promises) == FALSE

\* Promise.all(bandPromises) rejects as soon as one band promise has
JoinRejects(promises) == Rejected(promises) # {}

\* Promise.all(bandPromises) resolves once every band promise has
JoinResolves(promises) == Resolved(promises) = DOMAIN promises

\* results.forEach(... bandResults[bands[index].name] = result)
BandResults(promises) == [b \in DOMAIN promises |-> [energy |-> promises[b].energy]]

\* detectInstruments skipped when there are no stems
detectInstrumentsNeedingStems(bands, stemPaths) ==
    IF stemPaths = Null THEN Null ELSE detectInstruments(bands)

\* detectInstruments(frequencyBands, stems)
detectInstrumentsWith(bands, stemPaths) == detectInstruments(bands)

\* the write of analysis.json left out of the try block
WriteFailureEscapes(error) == Rethrow(error)

\* fs.writeFileSync throwing inside the try block
WriteFailure(error) == Catch(error)

\* processAudio from line 47 on: detection, the result, the write, the return
Complete(stemPaths, bands) ==
    /\ stems' = stemPaths
    /\ \E found \in {detectInstrumentsWith(bands, stemPaths)} :
         /\ detection' = found
         /\ \/ /\ written' = TRUE
               /\ outcome' = Success([metadata |-> metadata, frequencyBands |-> bands,
                                      stems |-> stemPaths, instrumentDetection |-> found])
            \/ /\ written' = FALSE
               /\ outcome' = WriteFailure("writeFileSync")
    /\ pc' = "done"

\* the catch of processAudio for an error thrown before line 47
Fail(error) ==
    /\ outcome' = Catch(error)
    /\ pc' = "done"
    /\ UNCHANGED <<detection, stems, written>>

\* processAudio(filePath, fileName) up to its first await
processAudio ==
    /\ pc = "idle"
    /\ UNCHANGED <<metadata, bandPromises, separation, frequencyBands>>
    /\ \/ Fail("mkdirSync")
       \/ /\ pc' = "metadata"
          /\ UNCHANGED <<detection, stems, outcome, written>>

\* the ffprobe callback of getAudioMetadata; on success processAudio goes on
\* to analyzeFrequencyBands, which starts the six band filters
getAudioMetadata ==
    /\ pc = "metadata"
    /\ UNCHANGED <<separation, frequencyBands>>
    /\ \/ /\ Fail("ffprobe")
          /\ UNCHANGED <<metadata, bandPromises>>
       \/ /\ metadata' = AudioInfo
          /\ bandPromises' = [b \in BatchBands |-> [status |-> "filtering"]]
          /\ pc' = "bands"
          /\ UNCHANGED <<detection, stems, outcome, written>>

\* a band promise rejects: the first rejection rejects Promise.all and with
\* it analyzeFrequencyBands, which processAudio catches
RejectBand(b) ==
    /\ bandPromises' = [bandPromises EXCEPT ![b] = [status |-> "rejected"]]
    /\ UNCHANGED <<metadata, separation, frequencyBands>>
    /\ IF pc = "bands" /\ JoinRejects(bandPromises')
       THEN Fail("band")
       ELSE UNCHANGED <<pc, detection, stems, outcome, written>>

\* The promise of separateStems: stage is where it stands, spleeter and
\* basic are the promises of the two methods ("none" before they exist),
\* basicStarts counts the calls of useBasicSeparation, settles the calls of
\* resolve and reject that settled the promise, and result is what it
\* settled with (Null for a rejection).
Separating(hasSpleeter) ==
    [stage |-> IF hasSpleeter THEN "spleeter" ELSE "basic",
     ended |-> {},
     spleeter |-> IF hasSpleeter THEN "pending" ELSE "none",
     basic |-> IF hasSpleeter THEN "none" ELSE "pending",
     basicStarts |-> IF hasSpleeter THEN 0 ELSE 1,
     settles |-> 0,
     result |-> Null]

\* the executor threw before a separation process was started
Threw == [Separating(TRUE) EXCEPT !.stage = "failed", !.spleeter = "none", !.settles = 1]

\* useSpleeterForSeparation resolved: .then(stemPaths => resolve(stemPaths))
SpleeterResolved(s) ==
    [s EXCEPT !.stage = "resolved", !.spleeter = "resolved",
              !.settles = @ + 1, !.result = SpleeterStems]

FallbackRejecting(s) ==
    [s EXCEPT !.stage = "failed", !.spleeter = "rejected", !.settles = @ + 1]

\* useSpleeterForSeparation rejected: .catch(err => useBasicSeparation(...))
Fallback(s) ==
    [s EXCEPT !.stage = "basic", !.spleeter = "rejected", !.basic = "pending",
              !.basicStarts = @ + 1, !.ended = {}]

\* useBasicSeparation resolved: .then(resolve)
BasicResolved(s, ended) ==
    [s EXCEPT !.stage = "resolved", !.ended = ended, !.basic = "resolved",
              !.settles = @ + 1, !.result = BasicStems]

\* useBasicSeparation rejected: .catch(reject)
BasicRejected(s) ==
    [s EXCEPT !.stage = "failed", !.basic = "rejected", !.settles = @ + 1]

\* separateStems up to the start of the separation process
separateStems(bands) ==
    \/ /\ separation' = Threw
       /\ Complete(Null, bands)
    \/ /\ \E hasSpleeter \in BOOLEAN : separation' = Separating(hasSpleeter)
       /\ pc' = "stems"
       /\ UNCHANGED <<detection, stems, outcome, written>>

\* the 'error' handler of a band filter
bandError(b) ==
    /\ pc \in {"bands", "done"}
    /\ bandPromises # Null
    /\ bandPromises[b].status = "filtering"
    /\ RejectBand(b)

\* the 'end' handler of a band filter: ffprobe on the filtered file
bandEnd(b) ==
    /\ pc \in {"bands", "done"}
    /\ bandPromises # Null
    /\ bandPromises[b].status = "filtering"
    /\ bandPromises' = [bandPromises EXCEPT ![b] = [status |-> "probing"]]
    /\ UNCHANGED <<pc, metadata, separation, frequencyBands, detection, stems,
                   outcome, written>>

\* the ffprobe callback of a band: the last band to resolve resolves
\* Promise.all and analyzeFrequencyBands, and processAudio goes on to
\* separateStems
bandProbed(b) ==
    /\ pc \in {"bands", "done"}
    /\ bandPromises # Null
    /\ bandPromises[b].status = "probing"
    /\ \/ RejectBand(b)
       \/ /\ \E energy \in PipelineEnergies :
               bandPromises' = [bandPromises EXCEPT
                                   ![b] = [status |-> "resolved", energy |-> energy]]
          /\ UNCHANGED metadata
          /\ IF pc = "bands" /\ JoinResolves(bandPromises')
             THEN \E bands \in {BandResults(bandPromises')} :
                     /\ frequencyBands' = bands
                     /\ separateStems(bands)
             ELSE UNCHANGED <<pc, separation, frequencyBands, detection, stems,
                              outcome, written>>

\* the 'close' handler of the Spleeter process
spleeterClose ==
    /\ pc = "stems"
    /\ separation.stage = "spleeter"
    /\ UNCHANGED <<metadata, bandPromises, frequencyBands>>
    /\ \/ /\ separation' = SpleeterResolved(separation)
          /\ Complete(SpleeterStems, frequencyBands)
       \/ /\ separation' = Fallback(separation)
          /\ UNCHANGED <<pc, detection, stems, outcome, written>>

\* the 'end' handler of one stem filter of useBasicSeparation
basicEnd(stem) ==
    /\ pc = "stems"
    /\ separation.stage = "basic"
    /\ stem \notin separation.ended
    /\ UNCHANGED <<metadata, bandPromises, frequencyBands>>
    /\ \E ended \in {separation.ended \cup {stem}} :
         IF ended = StemTypes
         THEN /\ separation' = BasicResolved(separation, ended)
              /\ Complete(BasicStems, frequencyBands)
         ELSE /\ separation' = [separation EXCEPT !.ended = ended]
              /\ UNCHANGED <<pc, detection, stems, outcome, written>>

\* the 'error' handler of one stem filter of useBasicSeparation
basicError(stem) ==
    /\ pc = "stems"
    /\ separation.stage = "basic"
    /\ stem \notin separation.ended
    /\ UNCHANGED <<metadata, bandPromises, frequencyBands>>
    /\ separation' = BasicRejected(separation)
    /\ Complete(Null, frequencyBands)

bandEvents == \E b \in BatchBands : bandError(b) \/ bandEnd(b) \/ bandProbed(b)

stemEvents == spleeterClose \/ \E stem \in StemTypes : basicEnd(stem) \/ basicError(stem)

NextAudio ==
    \/ processAudio /\ UNCHANGED <<detectorVars, extractVars, pageVars>>
    \/ getAudioMetadata /\ UNCHANGED <<detectorVars, extractVars, pageVars>>
    \/ bandEvents /\ UNCHANGED <<detectorVars, extractVars, pageVars>>
    \/ stemEvents /\ UNCHANGED <<detectorVars, extractVars, pageVars>>

SpecAudio == Init /\ [][NextAudio]_vars

\* The event loop runs every handler whose event has arrived, and ffprobe
\* and the band filters are taken to terminate; nothing makes the stem
\* separation processes terminate.
bandsProgress ==
    (processAudio \/ getAudioMetadata \/ bandEvents) /\ UNCHANGED <<detectorVars, extractVars, pageVars>>

SpecAudioFair == SpecAudio /\ WF_vars(bandsProgress)

-----------------------------------------------------------------------------
(* The energy extraction of processInstrumentData (lines 175-190) on its   *)
(* own, over every small frame, band range and sample rate.                *)

Bytes == {0, 128, 255}

Frames == UNION {[0..(n - 1) -> Bytes] : n \in 1..MaxBufferLength}

Frequencies == 0..MaxFrequency

ExtractRates == {4, 8}

InitExtract ==
    /\ InitDetector
    /\ frequencyBands = Null
    /\ detection = Null
    /\ \E dataArray \in Frames, lowFreq \in Frequencies, highFreq \in Frequencies,
          sampleRate \in ExtractRates :
          extractIn = [dataArray |-> dataArray,
                       bufferLength |-> Cardinality(DOMAIN dataArray),
                       freqRange |-> Hz(lowFreq, highFreq),
                       sampleRate |-> sampleRate]
    /\ extractOut = Null
    /\ NotCalled
    /\ NotMounted
    /\ NotRequested

extract ==
    /\ extractOut = Null
    /\ LET sum == BandSum(extractIn.dataArray, extractIn.bufferLength,
                          extractIn.freqRange, extractIn.sampleRate)
       IN extractOut' = [lowIndex |-> sum.lowIndex,
                         highIndex |-> sum.highIndex,
                         read |-> ReadIndices(sum),
                         count |-> sum.count,
                         energy |-> EnergyOf(sum)]
    /\ UNCHANGED <<detectorVars, batchVars, extractIn, pipelineVars, pageVars>>

NextExtract == extract

SpecExtract == InitExtract /\ [][NextExtract]_vars

-----------------------------------------------------------------------------
(* getDetectionConfidence on its own, over histories of six samples: an    *)
(* old sample of 1.0 followed by a window of five samples drawn from three *)
(* levels.  Vocals, bass, kick and hihat get every such window; guitar,    *)
(* synth and snare get the windows in ascending order, one for each        *)
(* multiset of samples.                                                    *)

ConfidenceLevels == {Zero, Rat(1, 2), Rat(1, 1)}

Windows == [1..RecentWindow -> ConfidenceLevels]

AscendingWindows ==
    {w \in Windows : \A i \in 1..(RecentWindow - 1) : RatLE(w[i], w[i + 1])}

InitConfidence ==
    /\ isInitialized = TRUE
    /\ audioContext = [sampleRate |-> 48000]
    /\ analyser = [frequencyBinCount |-> FftSize \div 2]
    /\ \E first \in Windows, second \in AscendingWindows :
          detectionHistory =
             [b \in Bands |-> <<Rat(1, 1)>> \o
                               (IF b \in {"vocals", "bass", "kick", "hihat"}
                                THEN first ELSE second)]
    /\ estimate = EmptyMapping
    /\ result = EmptyMapping
    /\ ticks = 0
    /\ pushed = PerBand([b \in Bands |-> <<>>])
    /\ lastShape = Null
    /\ changes = 0
    /\ zeroRun = 0
    /\ given = Null
    /\ thrown = Null
    /\ InitIdle

\* confidence: this.getDetectionConfidence(instrument), for every band
readConfidence ==
    /\ estimate = EmptyMapping
    /\ estimate' = [b \in Bands |->
                      [confidence |-> getDetectionConfidence(b, detectionHistory[b])]]
    /\ UNCHANGED <<isInitialized, audioContext, analyser, detectionHistory, result,
                   ghostVars, frameVars, batchVars, extractVars, pipelineVars, pageVars>>

NextConfidence == readConfidence

SpecConfidence == InitConfidence /\ [][NextConfidence]_vars

-----------------------------------------------------------------------------
(* processOverlaps on its own, over the results processInstrumentData can  *)
(* return for the seven bands: the active flag is the one the band's       *)
(* threshold gives for the energy, the confidence one the estimator gives. *)

PairEnergies == {Rat(5, 10), Rat(7, 10), Rat(9, 10)}

DrumEnergies == {Rat(3, 10), Rat(9, 10)}

OtherEnergies == {Rat(9, 10)}

TransientConfidences == {Rat(4, 10), Rat(8, 10)}

StableConfidences == {Rat(5, 10), Rat(7, 10)}

BandResult(b, energy, confidence) ==
    [energy |-> energy,
     active |-> IsActive(energy, BandConfig(b).threshold),
     confidence |-> confidence]

InitOverlap ==
    /\ isInitialized = TRUE
    /\ audioContext = [sampleRate |-> 48000]
    /\ analyser = [frequencyBinCount |-> FftSize \div 2]
    /\ detectionHistory = PerBand([b \in Bands |-> <<>>])
    /\ \E pair \in [{"bass", "guitar"} -> PairEnergies],
          drum \in [DrumTypes -> DrumEnergies],
          other \in [{"vocals", "synth"} -> OtherEnergies],
          transient \in [DrumTypes -> TransientConfidences],
          stable \in [Bands \ DrumTypes -> StableConfidences] :
          estimate = PerBand([b \in Bands |->
                                BandResult(b,
                                           IF b \in DOMAIN pair THEN pair[b]
                                           ELSE IF b \in DOMAIN drum THEN drum[b]
                                           ELSE other[b],
                                           IF b \in DOMAIN drum THEN transient[b]
                                           ELSE stable[b])])
    /\ result = EmptyMapping
    /\ ticks = 0
    /\ pushed = PerBand([b \in Bands |-> <<>>])
    /\ lastShape = Null
    /\ changes = 0
    /\ zeroRun = 0
    /\ given = Null
    /\ thrown = Null
    /\ InitIdle

\* this.processOverlaps(result) on the seven results of a tick
resolveOverlaps ==
    /\ result = EmptyMapping
    /\ result' = processOverlaps(estimate)
    /\ UNCHANGED <<isInitialized, audioContext, analyser, detectionHistory, estimate,
                   ghostVars, frameVars, batchVars, extractVars, pipelineVars, pageVars>>

NextOverlap == resolveOverlaps

SpecOverlap == InitOverlap /\ [][NextOverlap]_vars

-----------------------------------------------------------------------------
(* The per-band calls of a tick (getInstrumentEnergy, lines 148-171) on a  *)
(* frame whose length need not be the bufferLength that is passed along    *)
(* with it: processInstrumentData takes dataArray and bufferLength as      *)
(* separate arguments and never compares them.                             *)

FrameLengths == {32, 128, 256}

FrameShapes == {BassAlone, BassDominant}

\* a frame of the given length, laid out as FrameData lays out bufferLength bins
FrameOfLength(shape, length, bufferLength, sampleRate) ==
    LET edge == FreqIndex(instruments.bass.freqRange[2], sampleRate, bufferLength)
    IN [i \in 0..(length - 1) |->
          IF i < edge THEN shape.low[(i % 2) + 1] ELSE shape.high[(i % 2) + 1]]

processFrame ==
    /\ isInitialized
    /\ ticks < MaxFrames
    /\ UNCHANGED <<isInitialized, audioContext, analyser, changes, zeroRun>>
    /\ \E shape \in FrameShapes, length \in FrameLengths :
         \E bufferLength \in {analyser.frequencyBinCount} :
         \E dataArray \in {FrameOfLength(shape, length, bufferLength,
                                          audioContext.sampleRate)} :
         \E rawEnergy \in {PerBand([b \in Bands |->
                                RawEnergy(dataArray, bufferLength, FreqRangeOf(b),
                                          audioContext.sampleRate)])} :
         \E processed \in {ProcessAll(rawEnergy)} :
         \E results \in {PerBand([b \in Bands |-> Triple(processed[b])])} :
            /\ given' = [length |-> length, bufferLength |-> bufferLength]
            /\ thrown' = Null
            /\ lastShape' = shape
            /\ ticks' = ticks + 1
            /\ detectionHistory' = PerBand([b \in Bands |-> processed[b].history])
            /\ pushed' = PerBand([b \in Bands |-> Append(pushed[b], processed[b].energy)])
            /\ estimate' = results
            /\ result' = processOverlaps(results)

NextFrame ==
    \/ initializeWithExistingContext /\ UNCHANGED <<batchVars, extractVars, frameVars, pipelineVars, pageVars>>
    \/ processFrame /\ UNCHANGED <<batchVars, extractVars, pipelineVars, pageVars>>

SpecFrame == Init /\ [][NextFrame]_vars

-----------------------------------------------------------------------------
(* The animation loop of CosmicVisualizer (second effect, dependencies     *)
(* [analyser, isPlaying]).  A change of a dependency runs the cleanup of   *)
(* the previous effect and then the effect; isPlaying changes only in the  *)
(* click handler of the play button, whose render, commit and effects run  *)
(* before the browser gets to run another animation-frame callback, so a   *)
(* change with its cleanup and effect is one step.                         *)

\* the analyser nodes a player creates, one per audio url; 0 is none yet
Analysers == {1, 2}

\* cancelAnimationFrame(animationRef.current), guarded by animationRef.current
Cancel(v) ==
    IF v.animationRef # 0
    THEN [v EXCEPT !.pending = {f \in @ : f.id # v.animationRef}]
    ELSE v

CleanupNever(v) == v

\* the cleanup the previous run of the effect returned, if it returned one
Cleanup(v) == IF v.cleanup THEN Cancel(v) ELSE v

\* animate, as closed over the isPlaying of the render that defined it
Animate(v, isPlaying) ==
    IF ~isPlaying
    THEN [v EXCEPT !.frame = <<>>, !.framePlaying = v.isPlaying]
    ELSE LET id == v.requested + 1
         IN [v EXCEPT
               !.frame = <<IF v.processor THEN "getInstrumentEnergy"
                                          ELSE "getByteFrequencyData",
                           "requestAnimationFrame">>,
               !.framePlaying = v.isPlaying,
               !.frames = @ + 1,
               !.pending = @ \cup {[id |-> id, isPlaying |-> isPlaying]},
               !.animationRef = id,
               !.requested = id]

\* the first effect: the processor is created once an element and a context
\* (set together with the analyser) are there
CreateProcessor(v) ==
    [v EXCEPT !.processor = @ \/ (v.audioElement /\ v.analyser # 0)]

\* the second effect
Effect(v) ==
    IF v.analyser = 0
    THEN [v EXCEPT !.cleanup = FALSE]
    ELSE IF v.isPlaying
         THEN Animate([v EXCEPT !.cleanup = TRUE], v.isPlaying)
         ELSE Cancel([v EXCEPT !.cleanup = TRUE])

Commit(v) == Effect(Cleanup(CreateProcessor(v)))

Mounted(audioElement) ==
    [audioElement |-> audioElement, isPlaying |-> FALSE, analyser |-> 0,
     processor |-> FALSE, cleanup |-> FALSE, animationRef |-> 0,
     pending |-> {}, requested |-> 0, frames |-> 0,
     frame |-> <<>>, framePlaying |-> FALSE]

InitVisualizer ==
    /\ InitDetector
    /\ frequencyBands = Null
    /\ detection = Null
    /\ extractIn = Null
    /\ extractOut = Null
    /\ NotCalled
    /\ NotRequested
    /\ \E audioElement \in BOOLEAN : visualizer = Commit(Mounted(audioElement))

\* handlePlayPause: setIsPlaying(!isPlaying)
handlePlayPause ==
    /\ visualizer.requested < MaxRequests
    /\ visualizer' = Commit([visualizer EXCEPT !.isPlaying = ~@])

\* initAudio: setAnalyser(analyzerNode); a player without a url keeps none
setAnalyser ==
    /\ visualizer.requested < MaxRequests
    /\ \E a \in (Analysers \cup {0}) \ {visualizer.analyser} :
          visualizer' = Commit([visualizer EXCEPT !.analyser = a])

\* the browser runs a pending animation-frame callback
animationFrame ==
    /\ visualizer.requested < MaxRequests
    /\ \E f \in visualizer.pending :
          visualizer' = Animate([visualizer EXCEPT !.pending = @ \ {f}], f.isPlaying)

NextVisualizer ==
    \/ handlePlayPause /\ UNCHANGED <<detectorVars, batchVars, extractVars, pipelineVars, upload>>
    \/ setAnalyser /\ UNCHANGED <<detectorVars, batchVars, extractVars, pipelineVars, upload>>
    \/ animationFrame /\ UNCHANGED <<detectorVars, batchVars, extractVars, pipelineVars, upload>>

SpecVisualizer == InitVisualizer /\ [][NextVisualizer]_vars

-----------------------------------------------------------------------------
(* getDetectionConfidence over histories of six samples whose oldest       *)
(* sample lies outside the window: every band gets the same history, the   *)
(* oldest sample and the five of the window drawn from four levels, the    *)
(* smallest of them far below every threshold.                             *)

WindowLevels == {Zero, Rat(1, 1000), Rat(1, 2), Rat(1, 1)}

InitWindow ==
    /\ isInitialized = TRUE
    /\ audioContext = [sampleRate |-> 48000]
    /\ analyser = [frequencyBinCount |-> FftSize \div 2]
    /\ \E older \in WindowLevels, recent \in [1..RecentWindow -> WindowLevels] :
          detectionHistory = [b \in Bands |-> <<older>> \o recent]
    /\ estimate = EmptyMapping
    /\ result = EmptyMapping
    /\ ticks = 0
    /\ pushed = PerBand([b \in Bands |-> <<>>])
    /\ lastShape = Null
    /\ changes = 0
    /\ zeroRun = 0
    /\ given = Null
    /\ thrown = Null
    /\ InitIdle

SpecWindow == InitWindow /\ [][NextConfidence]_vars

-----------------------------------------------------------------------------
(* The POST /api/upload handler (server/index.js) with the processAudio it *)
(* awaits.  The continuation of the await runs in the step in which the    *)
(* promise of processAudio settles.                                        *)

Received(file) ==
    [file |-> file, probe |-> "none", threw |-> FALSE, responses |-> <<>>]

\* res.status(status).json({ error })
ErrorResponse(status, error) == [status |-> status, error |-> error]

\* res.json({ success: true, ..., analysisUrl, instrumentDetection,
\* processingComplete, ... })
SuccessResponse(processingResult) ==
    [status |-> 200,
     success |-> TRUE,
     analysisUrl |-> IF processingResult.success
                     THEN [path |-> processingResult.analysisPath] ELSE Null,
     instrumentDetection |-> IF processingResult.success
                             THEN processingResult.analysisResult.instrumentDetection
                             ELSE Null,
     processingComplete |-> processingResult.success]

Send(request, response) == [request EXCEPT !.responses = Append(@, response)]

\* the catch block answering as well after the handler has returned
AnsweredAgain(request, processingResult) ==
    Send(Send(request, SuccessResponse(processingResult)),
         ErrorResponse(500, "Server error processing upload"))

\* the statements after await audioProcessor.processAudio(...)
Answered(request, processingResult) ==
    Send(request, SuccessResponse(processingResult))

\* what the request becomes in a step of processAudio
Awaited(request, before, after) ==
    IF before = Null /\ after # Null THEN Answered(request, after) ELSE request

InitUpload == Init

\* the handler up to the call of ffmpeg.ffprobe
postUpload ==
    /\ upload = Null
    /\ \E file \in BOOLEAN :
          IF ~file
          THEN upload' = Send(Received(file), ErrorResponse(400, "No file uploaded"))
          ELSE \/ upload' = Send([Received(file) EXCEPT !.threw = TRUE],
                                 ErrorResponse(500, "Server error processing upload"))
               \/ upload' = [Received(file) EXCEPT !.probe = "started"]
    /\ UNCHANGED <<pipelineVars, batchVars>>

\* the ffprobe callback with err set
probeFailed ==
    /\ upload # Null
    /\ upload.probe = "started"
    /\ upload' = Send([upload EXCEPT !.probe = "failed"],
                      ErrorResponse(500, "Error analyzing audio file"))
    /\ UNCHANGED <<pipelineVars, batchVars>>

\* the ffprobe callback without err: metadata.streams[0] of a file without
\* streams throws in the callback and nothing answers; otherwise processAudio
\* is called
probed ==
    /\ upload # Null
    /\ upload.probe = "started"
    /\ \/ /\ upload' = [upload EXCEPT !.probe = "threw"]
          /\ UNCHANGED <<pipelineVars, batchVars>>
       \/ /\ processAudio
          /\ upload' = Awaited([upload EXCEPT !.probe = "succeeded"], outcome, outcome')

\* a handler of the processAudio that the request awaits
processing ==
    /\ upload # Null
    /\ upload.probe = "succeeded"
    /\ getAudioMetadata \/ bandEvents \/ stemEvents
    /\ upload' = Awaited(upload, outcome, outcome')

NextUpload ==
    \/ postUpload /\ UNCHANGED <<detectorVars, extractVars, visualizer>>
    \/ probeFailed /\ UNCHANGED <<detectorVars, extractVars, visualizer>>
    \/ probed /\ UNCHANGED <<detectorVars, extractVars, visualizer>>
    \/ processing /\ UNCHANGED <<detectorVars, extractVars, visualizer>>

SpecUpload == InitUpload /\ [][NextUpload]_vars

-----------------------------------------------------------------------------
(* The fallback analysis of animate (no AudioProcessor): the energy of each *)
(* musician from the analyser's frame, and the animation phase it drives.  *)

Musicians ==
    [vocalist  |-> Hz(300, 3500),
     guitarist |-> Hz(300, 4000),
     drummer   |-> Hz(20, 250),
     bassist   |-> Hz(60, 250),
     synth     |-> Hz(100, 8000)]

MusicianTypes == DOMAIN Musicians

\* Math.floor(freq / (22050 / bufferLength))
FallbackIndex(freq, bufferLength) == (freq * bufferLength) \div Nyquist

\* total / (highIndex - lowIndex) / 255, 0 / 0 being NaN
FallbackEnergy(dataArray, bufferLength, freqRange) ==
    LET lowIndex == FallbackIndex(freqRange[1], bufferLength)
        highIndex == FallbackIndex(freqRange[2], bufferLength)
        total == SumBins(dataArray, lowIndex, LoopEnd(highIndex, bufferLength))
    IN [lowIndex |-> lowIndex,
        highIndex |-> highIndex,
        energy |-> Rat(total, (highIndex - lowIndex) * ByteMax)]

\* instrumentEnergies[musician.type]?.energy || 0
OrZero(energy) == IF IsNaN(energy) THEN Zero ELSE energy

\* musician.animationPhase += 0.1 + energy * 0.3
Advance(animationPhase, energy) ==
    RatAdd(animationPhase, RatAdd(Rat(1, 10), RatMul(energy, Rat(3, 10))))

\* analyser.frequencyBinCount for the fftSize values 32 to 512
FallbackBufferLengths == {16, 32, 64, 128, 256}

\* frames getByteFrequencyData fills in: silence, every bin at 255, the two
\* lowest bins at 255, every bin at 128
FallbackShapes == {"silent", "full", "lows", "half"}

FallbackFrame(shape, bufferLength) ==
    [i \in 0..(bufferLength - 1) |->
        CASE shape = "silent" -> 0
          [] shape = "full" -> ByteMax
          [] shape = "lows" -> (IF i < 2 THEN ByteMax ELSE 0)
          [] shape = "half" -> 128]

InitFallback ==
    /\ InitDetector
    /\ frequencyBands = Null
    /\ detection = Null
    /\ extractIn = Null
    /\ extractOut = Null
    /\ NotCalled
    /\ NotRequested
    /\ \E bufferLength \in FallbackBufferLengths :
          visualizer = [bufferLength |-> bufferLength,
                        frames |-> 0,
                        instrumentEnergies |-> Null,
                        previousPhase |-> [m \in MusicianTypes |-> Zero],
                        animationPhase |-> [m \in MusicianTypes |-> Zero]]

\* one frame of animate on the fallback path
fallbackFrame ==
    /\ visualizer.frames < MaxDrawn
    /\ \E shape \in FallbackShapes :
         \E energies \in {[m \in MusicianTypes |->
                              FallbackEnergy(FallbackFrame(shape, visualizer.bufferLength),
                                             visualizer.bufferLength, Musicians[m])]} :
            visualizer' =
               [visualizer EXCEPT
                  !.frames = @ + 1,
                  !.instrumentEnergies = energies,
                  !.previousPhase = visualizer.animationPhase,
                  !.animationPhase =
                     [m \in MusicianTypes |-> Advance(@[m], OrZero(energies[m].energy))]]
    /\ UNCHANGED <<detectorVars, batchVars, extractVars, pipelineVars, upload>>

NextFallback == fallbackFrame

SpecFallback == InitFallback /\ [][NextFallback]_vars

-----------------------------------------------------------------------------
(* Properties of the real-time detector (Spec).                            *)

Sustained == Bands \ DrumTypes

\* the window the confidence of the last tick was computed from
Window(b) == Slice(detectionHistory[b], RecentWindow)

Flat(values) == \A i \in 1..Len(values) : values[i] = values[1]

HasWindow(b) == Has(estimate, b) /\ Len(detectionHistory[b]) >= MinHistory

\* the thresholds as the property states them
StatedThreshold ==
    [vocals |-> Rat(45, 100), guitar |-> Rat(5, 10), bass |-> Rat(5, 10),
     kick |-> Rat(6, 10), snare |-> Rat(5, 10), hihat |-> Rat(4, 10),
     synth |-> Rat(45, 100)]

\* C1: in every tick's output each of the seven bands is active exactly when
\* its energy is strictly greater than its threshold (vocals 0.45, guitar 0.5,
\* bass 0.5, kick 0.6, snare 0.5, hihat 0.4, synth 0.45); an energy equal to
\* the threshold gives active = false.
C1_ActiveIffAboveThreshold ==
    \A b \in Bands :
       Has(result, b) =>
          /\ result[b].active <=> RatGT(result[b].energy, StatedThreshold[b])
          /\ result[b].energy = StatedThreshold[b] => ~result[b].active

\* a tick whose guitar energy equals the guitar threshold while bass is above
\* its own
C1_Witness ==
    /\ ticks > 0
    /\ result.guitar.energy = Rat(5, 10)
    /\ ~result.guitar.active
    /\ result.bass.energy = Rat(9, 10)
    /\ result.bass.active

\* C2: each band's history holds at most 20 samples and is the most recent
\* min(n, 20) of the n energies pushed so far, oldest first; after 25 pushes
\* it is pushes 6..25 in order.
C2_HistoryIsLastTwenty ==
    \A b \in Bands :
       LET n == Len(pushed[b])
           k == IF n < 20 THEN n ELSE 20
       IN /\ Len(detectionHistory[b]) <= 20
          /\ detectionHistory[b] = SubSeq(pushed[b], n - k + 1, n)
          /\ n = 25 => detectionHistory[b] = SubSeq(pushed[b], 6, 25)

\* 25 pushes, with a change of energy inside the retained window
C2_Witness ==
    /\ Len(pushed.bass) = 25
    /\ Len(detectionHistory.bass) = 20
    /\ detectionHistory.bass[1] # detectionHistory.bass[20]
    /\ pushed.bass[1] # pushed.bass[25]

\* C3: while a band's history holds fewer than 5 samples the confidence
\* processInstrumentData returns is exactly 0.5; the history holds fewer than
\* 5 samples on ticks 1 to 4 and on no later tick.
C3_NeutralConfidence ==
    \A b \in Bands :
       Has(estimate, b) =>
          /\ Len(detectionHistory[b]) < 5 <=> ticks \in 1..4
          /\ Len(detectionHistory[b]) < 5 => estimate[b].confidence = Rat(1, 2)

\* tick 4: four samples in every history and the neutral confidence
C3_Witness ==
    /\ ticks = 4
    /\ \A b \in Bands : Len(detectionHistory[b]) = 4
    /\ \A b \in Bands : estimate[b].confidence = Rat(1, 2)
    /\ estimate.bass.active

\* C4 as stated: for a percussive band with at least 5 samples, a sample in
\* the last 5 that is at least 1.5 times its predecessor gives confidence 0.8,
\* and a flat window gives 0.4.
C4_AtLeastOneAndAHalf ==
    \A b \in DrumTypes :
       HasWindow(b) =>
          LET w == Window(b)
          IN /\ (\E i \in 2..Len(w) :
                    3 * w[i - 1].n * w[i].d <= 2 * w[i].n * w[i - 1].d)
                => estimate[b].confidence = Rat(8, 10)
             /\ Flat(w) => estimate[b].confidence = Rat(4, 10)

\* C4 amended: a sample in the last 5 that is strictly greater than 1.5 times
\* its predecessor gives confidence 0.8; without such a sample, in particular
\* for a flat window, the confidence is 0.4.
C4_StrictTransient ==
    \A b \in DrumTypes :
       HasWindow(b) =>
          LET w == Window(b)
              strict == \E i \in 2..Len(w) :
                           3 * w[i - 1].n * w[i].d < 2 * w[i].n * w[i - 1].d
          IN /\ strict => estimate[b].confidence = Rat(8, 10)
             /\ ~strict => estimate[b].confidence = Rat(4, 10)
             /\ Flat(w) => estimate[b].confidence = Rat(4, 10)

\* hihat has a transient in its window while snare's window is flat and
\* non-zero and kick's is all zero
C4_Witness ==
    /\ HasWindow("hihat")
    /\ ~Flat(Window("hihat"))
    /\ estimate.hihat.confidence = Rat(8, 10)
    /\ Flat(Window("snare"))
    /\ RatGT(estimate.snare.energy, Zero)
    /\ estimate.snare.confidence = Rat(4, 10)
    /\ Flat(Window("kick"))
    /\ estimate.kick.energy = Zero
    /\ estimate.kick.confidence = Rat(4, 10)

\* C5 as stated: for a sustained band with at least 5 samples, a constant
\* window gives confidence 0.9 and a high-variance window gives 0.3.
C5_ConstantGivesNineTenths ==
    \A b \in Sustained :
       HasWindow(b) =>
          LET w == Window(b)
          IN /\ Flat(w) => estimate[b].confidence = Rat(9, 10)
             /\ RatLE(Rat(8, 100), Variance(w)) => estimate[b].confidence = Rat(3, 10)

\* C5 amended: a constant window (variance 0) gives confidence 0.7, the value
\* of 0.7 - 5 * variance, so the cap of 0.9 is never reached; a window whose
\* variance is at least 0.08 gives 0.3.
C5_ConstantGivesSevenTenths ==
    \A b \in Sustained :
       HasWindow(b) =>
          LET w == Window(b)
          IN /\ Flat(w) => estimate[b].confidence = Rat(7, 10)
             /\ (~Flat(w) /\ RatLE(Rat(8, 100), Variance(w)))
                => estimate[b].confidence = Rat(3, 10)
             /\ RatLE(estimate[b].confidence, Rat(7, 10))

\* bass has a constant non-zero window while guitar's window has high variance
C5_Witness ==
    /\ HasWindow("bass")
    /\ Flat(Window("bass"))
    /\ RatGT(estimate.bass.energy, Zero)
    /\ estimate.bass.confidence = Rat(7, 10)
    /\ RatLE(Rat(8, 100), Variance(Window("guitar")))
    /\ estimate.guitar.confidence = Rat(3, 10)

\* C6 as stated: after 20 consecutive all-zero frames every band has energy 0
\* and is inactive, percussive confidence is 0.4 and sustained confidence 0.9.
C6_SilenceGivesNineTenths ==
    zeroRun >= 20 =>
       \A b \in Bands :
          /\ result[b].energy = Zero
          /\ ~result[b].active
          /\ result[b].confidence = IF b \in DrumTypes THEN Rat(4, 10) ELSE Rat(9, 10)

\* C6 amended: after 20 consecutive all-zero frames every band has energy 0
\* and is inactive, percussive confidence is 0.4 and sustained confidence 0.7.
C6_SilenceGivesSevenTenths ==
    zeroRun >= 20 =>
       /\ \A b \in Bands :
             /\ result[b].energy = Zero
             /\ ~result[b].active
             /\ result[b].confidence = IF b \in DrumTypes THEN Rat(4, 10) ELSE Rat(7, 10)
       /\ result.drums.energy = Zero
       /\ ~result.drums.active

\* 20 all-zero frames after ticks that had energy
C6_Witness ==
    /\ zeroRun = 20
    /\ ticks > 20
    /\ \E b \in Bands : \E i \in 1..Len(pushed[b]) : pushed[b][i] # Zero

\* C7: a tick's output has a drums result exactly when kick, snare and hihat
\* all have a result in it, and then drums.energy is the maximum of the three.
C7_DrumsIffComponents ==
    /\ Has(result, "drums") <=> \A c \in {"kick", "snare", "hihat"} : Has(result, c)
    /\ Has(result, "drums") =>
          /\ \E c \in {"kick", "snare", "hihat"} : result.drums.energy = result[c].energy
          /\ \A c \in {"kick", "snare", "hihat"} :
                RatLE(result[c].energy, result.drums.energy)

\* a tick whose three drum energies differ, hihat's being the greatest
C7_Witness ==
    /\ Has(result, "drums")
    /\ RatLT(result.kick.energy, result.hihat.energy)
    /\ RatLT(result.snare.energy, result.hihat.energy)
    /\ result.drums.energy = result.hihat.energy

\* C21: in every tick that emits drums, drums.active is kick.active or
\* snare.active or hihat.active, drums.confidence is the maximum of the three
\* components' confidences, and drums.components holds exactly the kick,
\* snare and hihat results emitted in that tick.
C21_DrumsFromComponents ==
    Has(result, "drums") =>
       /\ result.drums.active <=> (\E c \in DrumTypes : result[c].active)
       /\ \E c \in DrumTypes : result.drums.confidence = result[c].confidence
       /\ \A c \in DrumTypes : RatLE(result[c].confidence, result.drums.confidence)
       /\ DOMAIN result.drums.components = DrumTypes
       /\ \A c \in DrumTypes :
             /\ result.drums.components[c] = result[c]
             /\ result.drums.components[c] = estimate[c]

\* an active hihat with a transient beside an inactive kick without one
C21_Witness ==
    /\ Has(result, "drums")
    /\ ~result.kick.active
    /\ result.kick.confidence = Rat(4, 10)
    /\ result.hihat.active
    /\ result.hihat.confidence = Rat(8, 10)
    /\ result.drums.active
    /\ result.drums.confidence = Rat(8, 10)

StatedHistoryKeys == {"vocals", "guitar", "bass", "kick", "snare", "hihat", "synth"}

\* C22: the drums group has no state of its own: the history map always has
\* exactly the keys vocals, guitar, bass, kick, snare, hihat and synth, and
\* the drums result of a tick is given by that tick's kick, snare and hihat
\* results alone, whatever the drums result before it was.
C22_DrumsHaveNoState ==
    [][/\ DOMAIN detectionHistory = StatedHistoryKeys
       /\ DOMAIN detectionHistory' = StatedHistoryKeys
       /\ Has(result', "drums") =>
             /\ DOMAIN result'.drums = {"energy", "active", "confidence", "components"}
             /\ result'.drums.energy =
                   RatMax(result'.kick.energy, RatMax(result'.snare.energy, result'.hihat.energy))
             /\ result'.drums.active =
                   (result'.kick.active \/ result'.snare.active \/ result'.hihat.active)
             /\ result'.drums.confidence =
                   RatMax(result'.kick.confidence,
                          RatMax(result'.snare.confidence, result'.hihat.confidence))
             /\ result'.drums.components =
                   [kick |-> result'.kick, snare |-> result'.snare, hihat |-> result'.hihat]
       /\ (Has(result, "drums") /\ Has(result', "drums")
              /\ \A c \in DrumTypes : result'[c] = result[c])
             => result'.drums = result.drums]_vars

\* a loud frame after a silent first one: the drums energy of this tick is
\* the snare's, not the 0 of the tick before
C22_Witness ==
    /\ ticks >= 2
    /\ changes = 1
    /\ lastShape = BassOverGuitar
    /\ pushed.snare[1] = Zero
    /\ result.drums.energy = Rat(23, 25)
    /\ result.drums.energy = result.snare.energy
    /\ "drums" \notin DOMAIN detectionHistory

\* C23: suppression does not compound across ticks: guitar's output
\* confidence is c or 0.7 * c, c being the estimator's value of that tick on
\* the history of raw energies, however many earlier ticks were suppressed,
\* and no history ever holds anything but the raw energies pushed.
C23_NoCompounding ==
    ticks > 0 =>
       /\ \E c \in {getDetectionConfidence("guitar", detectionHistory.guitar)} :
             /\ result.guitar.confidence \in {c, RatMul(c, Rat(7, 10))}
             /\ RatLE(Rat(21, 100), result.guitar.confidence)
       /\ \A b \in Bands :
             /\ detectionHistory[b] = Slice(pushed[b], HistoryCapacity)
             /\ pushed[b][Len(pushed[b])] = result[b].energy

\* twenty and more ticks in a row with bass 0.9 over guitar 0.7: the output
\* is still 0.7 times the estimator's 0.7
C23_Witness ==
    /\ ticks >= HistoryCapacity
    /\ changes = 0
    /\ lastShape = BassDominant
    /\ result.bass.energy = Rat(9, 10)
    /\ result.guitar.energy = Rat(7, 10)
    /\ result.guitar.confidence = Rat(49, 100)
    /\ \A i \in 1..HistoryCapacity : detectionHistory.guitar[i] = Rat(7, 10)

\* C8 as stated: with bass.energy 0.9 and guitar.energy 0.5 both are active
\* and guitar's output confidence is 0.7 times the estimator's; with guitar
\* 0.9 and bass 0.5 neither confidence is changed.
C8_BothActiveAtOneHalf ==
    /\ (ticks > 0 /\ result.bass.energy = Rat(9, 10) /\ result.guitar.energy = Rat(5, 10))
       => /\ result.bass.active
          /\ result.guitar.active
          /\ result.guitar.confidence = RatMul(estimate.guitar.confidence, Rat(7, 10))
    /\ (ticks > 0 /\ result.guitar.energy = Rat(9, 10) /\ result.bass.energy = Rat(5, 10))
       => /\ result.bass.confidence = estimate.bass.confidence
          /\ result.guitar.confidence = estimate.guitar.confidence

\* C8 amended: with bass.energy 0.9 and guitar.energy 0.5 bass is active and
\* guitar, not above its 0.5 threshold, is not, so guitar's confidence is
\* unchanged; with bass 0.9 and guitar 0.7 both are active and guitar's output
\* confidence is 0.7 times the estimator's; with guitar 0.9 and bass 0.5
\* neither confidence is changed; bass's confidence is never changed.
C8_SuppressedOnlyWhenActive ==
    ticks > 0 =>
       /\ (result.bass.energy = Rat(9, 10) /\ result.guitar.energy = Rat(5, 10))
          => /\ result.bass.active
             /\ ~result.guitar.active
             /\ result.guitar.confidence = estimate.guitar.confidence
       /\ (result.bass.energy = Rat(9, 10) /\ result.guitar.energy = Rat(7, 10))
          => /\ result.bass.active
             /\ result.guitar.active
             /\ result.guitar.confidence = RatMul(estimate.guitar.confidence, Rat(7, 10))
       /\ (result.guitar.energy = Rat(9, 10) /\ result.bass.energy = Rat(5, 10))
          => result.guitar.confidence = estimate.guitar.confidence
       /\ result.bass.confidence = estimate.bass.confidence

\* bass 0.9 over guitar 0.7 with a settled estimate, scaled in the output
C8_Witness ==
    /\ ticks > 0
    /\ result.bass.energy = Rat(9, 10)
    /\ result.guitar.energy = Rat(7, 10)
    /\ estimate.guitar.confidence = Rat(7, 10)
    /\ result.guitar.confidence = Rat(49, 100)

-----------------------------------------------------------------------------
(* Properties of the batch rule layer (SpecDetect).                        *)

\* C9: bass is detected iff bass > 0.6, with confidence the bass energy;
\* drums iff sub_bass > 0.6 or highs > 0.7, with confidence the greater of
\* the two; vocals iff mids > 0.7, with confidence mids; guitar iff
\* low_mids > 0.6 and mids > 0.5, with confidence their average; synth iff
\* high_mids > 0.7 and highs > 0.6, with confidence their average.  Energies
\* sub_bass 0.65, bass 0.3, low_mids 0.2, mids 0.75, high_mids 0.2, highs 0.2
\* give drums with confidence 0.65, vocals with confidence 0.75, no other.
C9_DetectionRules ==
    detection # Null =>
       LET e(b) == frequencyBands[b].energy
           Twice(x) == RatAdd(x, x)
       IN /\ detection.bass.detected <=> RatGT(e("bass"), Rat(6, 10))
          /\ detection.bass.detected => detection.bass.confidence = e("bass")
          /\ detection.drums.detected
             <=> (RatGT(e("sub_bass"), Rat(6, 10)) \/ RatGT(e("highs"), Rat(7, 10)))
          /\ detection.drums.detected
             => /\ detection.drums.confidence \in {e("sub_bass"), e("highs")}
                /\ RatLE(e("sub_bass"), detection.drums.confidence)
                /\ RatLE(e("highs"), detection.drums.confidence)
          /\ detection.vocals.detected <=> RatGT(e("mids"), Rat(7, 10))
          /\ detection.vocals.detected => detection.vocals.confidence = e("mids")
          /\ detection.guitar.detected
             <=> (RatGT(e("low_mids"), Rat(6, 10)) /\ RatGT(e("mids"), Rat(5, 10)))
          /\ detection.guitar.detected
             => Twice(detection.guitar.confidence) = RatAdd(e("low_mids"), e("mids"))
          /\ detection.synth.detected
             <=> (RatGT(e("high_mids"), Rat(7, 10)) /\ RatGT(e("highs"), Rat(6, 10)))
          /\ detection.synth.detected
             => Twice(detection.synth.confidence) = RatAdd(e("high_mids"), e("highs"))
          /\ (/\ e("sub_bass") = Rat(65, 100) /\ e("bass") = Rat(3, 10)
              /\ e("low_mids") = Rat(2, 10) /\ e("mids") = Rat(75, 100)
              /\ e("high_mids") = Rat(2, 10) /\ e("highs") = Rat(2, 10))
             => /\ detection.drums = [detected |-> TRUE, confidence |-> Rat(65, 100)]
                /\ detection.vocals = [detected |-> TRUE, confidence |-> Rat(75, 100)]
                /\ \A other \in {"bass", "guitar", "synth", "piano"} :
                      ~detection[other].detected

\* the rules applied to the energies of the example
C9_Witness ==
    /\ detection # Null
    /\ frequencyBands.sub_bass.energy = Rat(65, 100)
    /\ frequencyBands.bass.energy = Rat(3, 10)
    /\ frequencyBands.low_mids.energy = Rat(2, 10)
    /\ frequencyBands.mids.energy = Rat(75, 100)
    /\ frequencyBands.high_mids.energy = Rat(2, 10)
    /\ frequencyBands.highs.energy = Rat(2, 10)
    /\ detection.drums.detected
    /\ detection.vocals.detected

\* C12: within a tick each band's energy is extracted, then pushed onto the
\* band's history, then the confidence is computed (so it already counts the
\* tick's sample); overlap resolution runs once, after all seven bands have
\* their result, and the emitted mapping has exactly the keys vocals, guitar,
\* bass, kick, snare, hihat, synth and drums.
C12_StepOrder ==
    ticks > 0 =>
       /\ DOMAIN result = Bands \cup {"drums"}
       /\ DOMAIN estimate = Bands
       /\ \A b \in Bands :
             LET history == detectionHistory[b]
             IN /\ history[Len(history)] = estimate[b].energy
                /\ estimate[b].confidence = getDetectionConfidence(b, history)
                /\ result[b].energy = estimate[b].energy
       /\ \A b \in Bands \ {"guitar"} : result[b] = estimate[b]
       /\ result.guitar.confidence \in
             {estimate.guitar.confidence, RatMul(estimate.guitar.confidence, Rat(7, 10))}
       /\ \A d \in DrumTypes : result.drums.components[d] = estimate[d]

\* the fifth tick: the confidence of a sustained band is no longer the neutral
\* 0.5 it would be on the four samples before this tick's push
C12_Witness ==
    /\ ticks = MinHistory
    /\ \A b \in Bands : Len(detectionHistory[b]) = MinHistory
    /\ estimate.vocals.confidence # Rat(1, 2)
    /\ result.guitar.confidence # estimate.guitar.confidence
    /\ "drums" \in DOMAIN result

\* C13: the seven histories change only in getInstrumentEnergy on an
\* initialized processor, which appends exactly one sample to each of them
\* (dropping the oldest beyond the capacity), so that all seven have the same
\* length and are never cleared; initialize, initializeWithExistingContext,
\* getMainAnalyser and getInstrumentEnergy on an uninitialized processor
\* (which returns the empty mapping) leave every history unchanged.
C13_HistoryAdvancesOnlyInTick ==
    [][/\ (ticks' = ticks + 1) =>
            /\ isInitialized
            /\ \A b \in Bands :
                  LET old == detectionHistory[b]
                      new == detectionHistory'[b]
                      kept == IF Len(old) < HistoryCapacity THEN old ELSE Tail(old)
                  IN /\ new = Append(kept, estimate'[b].energy)
                     /\ Len(new) >= Len(old)
                     /\ Len(pushed'[b]) = Len(pushed[b]) + 1
            /\ \A b, c \in Bands : Len(detectionHistory'[b]) = Len(detectionHistory'[c])
       /\ (ticks' = ticks) => detectionHistory' = detectionHistory
       /\ ~isInitialized =>
            /\ detectionHistory' = detectionHistory
            /\ result' = EmptyMapping
            /\ \A b \in Bands : detectionHistory[b] = <<>>]_vars

\* a tick on full histories: each still holds twenty samples afterwards
C13_Witness ==
    /\ isInitialized
    /\ ticks = HistoryCapacity + 2
    /\ \A b \in Bands :
          /\ Len(detectionHistory[b]) = HistoryCapacity
          /\ Len(pushed[b]) = ticks

-----------------------------------------------------------------------------
(* Properties of batch mode (SpecAudio).                                   *)

Settled == pc = "done"

StemsFailed == separation # Null /\ separation.stage = "failed"

\* the detection flags and the one-band confidences the rule layer gives
\* for the band energies handed to it
RulesApplied(found, bands) ==
    /\ found # Null
    /\ found.bass.detected <=> RatGT(bands.bass.energy, Rat(6, 10))
    /\ found.bass.detected => found.bass.confidence = bands.bass.energy
    /\ found.vocals.detected <=> RatGT(bands.mids.energy, Rat(7, 10))
    /\ found.vocals.detected => found.vocals.confidence = bands.mids.energy
    /\ found.drums.detected
       <=> (RatGT(bands.sub_bass.energy, Rat(6, 10)) \/ RatGT(bands.highs.energy, Rat(7, 10)))
    /\ found.guitar.detected
       <=> (RatGT(bands.low_mids.energy, Rat(6, 10)) /\ RatGT(bands.mids.energy, Rat(5, 10)))
    /\ found.synth.detected
       <=> (RatGT(bands.high_mids.energy, Rat(7, 10)) /\ RatGT(bands.highs.energy, Rat(6, 10)))
    /\ ~found.piano.detected

\* C14: the six band analyses complete in any interleaving, but
\* detectInstruments is not invoked before all six have completed
\* successfully; if one of them fails, detectInstruments is never invoked
\* for the file and processAudio resolves with success = false.
C14_JoinBeforeDetection ==
    /\ detection # Null =>
          /\ bandPromises # Null
          /\ Resolved(bandPromises) = BatchBands
          /\ frequencyBands = BandResults(bandPromises)
    /\ (bandPromises # Null /\ Rejected(bandPromises) # {}) =>
          /\ detection = Null
          /\ frequencyBands = Null
          /\ Settled
          /\ outcome = Catch("band")

\* five bands have resolved and the last one to finish failed
C14_Witness ==
    /\ bandPromises # Null
    /\ Cardinality(Resolved(bandPromises)) = 5
    /\ bandPromises["sub_bass"].status = "rejected"
    /\ detection = Null
    /\ outcome = Catch("band")

\* C15 as stated: if stem separation fails, processAudio still runs
\* detectInstruments and resolves with success = true, stems = null and the
\* instrument detection of the band energies.
C15_StemFailureSucceeds ==
    (Settled /\ StemsFailed) =>
       /\ RulesApplied(detection, frequencyBands)
       /\ stems = Null
       /\ outcome.success
       /\ outcome.analysisResult.stems = Null
       /\ outcome.analysisResult.instrumentDetection = detection

\* C15: if stem separation fails, processAudio still runs detectInstruments
\* on the band energies with stems = null, and resolves with success = true,
\* stems = null and that instrument detection unless the write of
\* analysis.json then fails, in which case it resolves with success = false.
C15_StemFailureRecovered ==
    (Settled /\ StemsFailed) =>
       /\ RulesApplied(detection, frequencyBands)
       /\ stems = Null
       /\ written =>
             /\ outcome.success
             /\ outcome.analysisResult.stems = Null
             /\ outcome.analysisResult.instrumentDetection = detection
       /\ ~written => outcome = Catch("writeFileSync")

\* the fallback separation failed on a file whose bands are all loud: the
\* result carries no stems and the detection of bass, drums, vocals, guitar
\* and synth
C15_Witness ==
    /\ Settled
    /\ StemsFailed
    /\ separation.ended # {}
    /\ written
    /\ outcome.success
    /\ outcome.analysisResult.stems = Null
    /\ \A i \in {"bass", "drums", "vocals", "guitar", "synth"} :
          outcome.analysisResult.instrumentDetection[i].detected

BandsCompleted == bandPromises # Null /\ Resolved(bandPromises) = BatchBands

\* C16: stem separation never blocks band-energy detection: once the six
\* band analyses have completed, processAudio eventually produces the
\* instrument detection and settles, even if the stem separation process
\* never terminates.
C16_DetectionNotBlocked == BandsCompleted ~> (detection # Null /\ Settled)

\* an error before the bands were started (mkdirSync, ffprobe), a failed
\* band, or a failed write of analysis.json
FailedOutsideStems ==
    \/ bandPromises = Null
    \/ Rejected(bandPromises) # {}
    \/ (detection # Null /\ ~written)

ResolvedAsFailure == DOMAIN outcome = {"success", "error"} /\ ~outcome.success

ResolvedAsSuccess ==
    /\ DOMAIN outcome = {"success", "analysisResult", "analysisPath"}
    /\ outcome.success
    /\ outcome.analysisResult.instrumentDetection = detection

\* C17 as stated: processAudio never rejects or throws; for any failure of
\* metadata extraction, band filtering, stem separation or the write of
\* analysis.json it resolves with {success: false, error}, otherwise with
\* {success: true, analysisResult, analysisPath}; analysis.json is written
\* only on the success path, after detection has run.
C17_EveryFailureResolvesFalse ==
    /\ ~Settled => (outcome = Null /\ ~written)
    /\ Settled =>
          /\ IF FailedOutsideStems \/ StemsFailed THEN ResolvedAsFailure
             ELSE ResolvedAsSuccess
          /\ written => (detection # Null /\ outcome.success)

\* C17: processAudio never rejects or throws; for any failure of directory
\* creation, metadata extraction, band filtering or the write of
\* analysis.json it resolves with {success: false, error}, otherwise (also
\* when only stem separation failed) with {success: true, analysisResult,
\* analysisPath}; analysis.json is written only on the success path, after
\* detection has run.
C17_FailuresResolveFalse ==
    /\ ~Settled => (outcome = Null /\ ~written)
    /\ Settled =>
          /\ IF FailedOutsideStems THEN ResolvedAsFailure ELSE ResolvedAsSuccess
          /\ written => (detection # Null /\ outcome.success)

\* the stems were separated and detection ran, then the write failed
C17_Witness ==
    /\ Settled
    /\ stems = SpleeterStems
    /\ detection # Null
    /\ ~written
    /\ outcome = Catch("writeFileSync")

-----------------------------------------------------------------------------
(* Properties of the confidence estimator (SpecConfidence).                *)

RECURSIVE RatSum(_, _)
RatSum(values, i) ==
    IF i > Len(values) THEN Zero ELSE RatAdd(values[i], RatSum(values, i + 1))

Deviation(x, mean) == RatAdd(x, RatMul(Rat(-1, 1), mean))

Square(x) == RatMul(x, x)

VarianceAbout(w, mean) ==
    RatDivInt(RatSum([i \in 1..Len(w) |-> Square(Deviation(w[i], mean))], 1), RecentWindow)

\* the population variance of the last five samples of a band's history
StatedVariance(b) ==
    VarianceAbout(Window(b), RatDivInt(RatSum(Window(b), 1), RecentWindow))

Clamp(low, high, x) == IF RatLT(x, low) THEN low ELSE IF RatLT(high, x) THEN high ELSE x

StatedConfidence(v) ==
    Clamp(Rat(3, 10), Rat(9, 10), RatAdd(Rat(7, 10), RatMul(Rat(-5, 1), v)))

\* C18: for a sustained band with at least 5 samples the confidence is
\* min(0.9, max(0.3, 0.7 - 5 * v)), v being the population variance (sum of
\* squared deviations from the mean, divided by 5) of the last 5 samples;
\* it lies in [0.3, 0.9] and does not increase with v.
C18_ClampedVarianceFormula ==
    estimate # EmptyMapping =>
       \E v \in {[b \in Sustained |-> StatedVariance(b)]} :
          /\ \A b \in Sustained :
                /\ estimate[b].confidence = StatedConfidence(v[b])
                /\ RatLE(Rat(3, 10), estimate[b].confidence)
                /\ RatLE(estimate[b].confidence, Rat(9, 10))
          /\ \A b, c \in Sustained :
                RatLE(v[b], v[c]) => RatLE(estimate[c].confidence, estimate[b].confidence)

\* one window with variance 0.04 and confidence 0.5, one of three samples 0
\* and two samples 1 with variance 0.24 and the confidence held at 0.3
C18_Witness ==
    /\ estimate # EmptyMapping
    /\ StatedVariance("vocals") = Rat(1, 25)
    /\ estimate.vocals.confidence = Rat(1, 2)
    /\ StatedVariance("guitar") = Rat(6, 25)
    /\ estimate.guitar.confidence = Rat(3, 10)

-----------------------------------------------------------------------------
(* Properties of the overlap resolver (SpecOverlap).                       *)

OverlapsResolved == result # EmptyMapping

\* x.energy > 1.2 * y.energy, cross-multiplied
ExceedsByRatio(x, y) == 10 * x.energy.n * y.energy.d > 12 * y.energy.n * x.energy.d

Damped(confidence) == RatMul(confidence, Rat(7, 10))

\* C19: suppression for the bass/guitar pair is symmetric: whenever both are
\* active and either band's energy exceeds 1.2 times the other's, the weaker
\* band's confidence (guitar's when bass is stronger, bass's when guitar is
\* stronger) is multiplied by 0.7.
C19_SymmetricSuppression ==
    (OverlapsResolved /\ estimate.bass.active /\ estimate.guitar.active) =>
       /\ ExceedsByRatio(estimate.bass, estimate.guitar)
          => result.guitar.confidence = Damped(estimate.guitar.confidence)
       /\ ExceedsByRatio(estimate.guitar, estimate.bass)
          => result.bass.confidence = Damped(estimate.bass.confidence)

\* C20: overlap resolution changes neither the energy nor the active flag of
\* any band, nor the confidence of any band other than guitar; guitar's
\* confidence is changed only when bass and guitar are both active and
\* bass.energy > 1.2 * guitar.energy.
C20_OnlyGuitarConfidenceChanges ==
    OverlapsResolved =>
       /\ \A b \in Bands :
             /\ result[b].energy = estimate[b].energy
             /\ result[b].active = estimate[b].active
       /\ \A b \in Bands \ {"guitar"} :
             result[b].confidence = estimate[b].confidence
       /\ result.guitar.confidence # estimate.guitar.confidence
          => /\ estimate.bass.active
             /\ estimate.guitar.active
             /\ ExceedsByRatio(estimate.bass, estimate.guitar)
             /\ result.guitar.confidence = Damped(estimate.guitar.confidence)

\* guitar damped under a louder bass while a loud hihat and kick leave every
\* other band as the estimator gave it
C20_Witness ==
    /\ OverlapsResolved
    /\ estimate.bass.energy = Rat(9, 10)
    /\ estimate.guitar.energy = Rat(7, 10)
    /\ result.guitar.confidence = Rat(49, 100)
    /\ result.bass.confidence = estimate.bass.confidence
    /\ result.hihat.active
    /\ result.kick.active
    /\ result.drums.active

-----------------------------------------------------------------------------
(* Properties of the energy extraction (SpecExtract).                      *)

\* C10: the energy lies in [0, 1], only frame indices in [0, bufferLength)
\* are read, and when the mapped index range is empty (high index <= low
\* index, or low index >= bufferLength) the energy is exactly 0, without a
\* division by zero.
C10_EnergyInUnitInterval ==
    extractOut # Null =>
       /\ InUnit(extractOut.energy)
       /\ ~IsNaN(extractOut.energy)
       /\ extractOut.read \subseteq 0..(extractIn.bufferLength - 1)
       /\ extractOut.read \subseteq DOMAIN extractIn.dataArray
       /\ (\/ extractOut.highIndex <= extractOut.lowIndex
           \/ extractOut.lowIndex >= extractIn.bufferLength)
          => /\ extractOut.energy = Zero
             /\ extractOut.read = {}

\* a band whose high index lies beyond the frame: the loop stops at the
\* frame's end and the energy is that of the bins read
C10_Witness ==
    /\ extractOut # Null
    /\ extractOut.highIndex > extractIn.bufferLength
    /\ extractOut.lowIndex < extractIn.bufferLength
    /\ extractOut.read = extractOut.lowIndex .. (extractIn.bufferLength - 1)
    /\ extractOut.energy = Rat(1, 1)

-----------------------------------------------------------------------------
(* Properties of a tick on a frame of any length (SpecFrame).              *)

Malformed(frame) == frame.length # frame.bufferLength

InvalidFrame == [name |-> "InvalidFrame"]

\* C11: a tick given a malformed frame (its length differs from the declared
\* bufferLength) is rejected with an InvalidFrame error, updates no band's
\* history and leaves the output of the previous tick in place.
C11_MalformedFrameRejected ==
    [][(ticks' = ticks + 1 /\ Malformed(given'))
          => /\ thrown' = InvalidFrame
             /\ detectionHistory' = detectionHistory
             /\ result' = result]_vars

-----------------------------------------------------------------------------
(* Properties of the animation loop (SpecVisualizer).                      *)

TicksOf(frame) == Cardinality({i \in 1..Len(frame) : frame[i] = "getInstrumentEnergy"})

\* C24: for a mounted visualizer, across any sequence of isPlaying and
\* analyser changes, at most one animation-frame callback is pending, each
\* executed frame invokes the detector tick at most once and has completed
\* when it requests the next frame (the request is its last step), and no
\* frame executes a tick while isPlaying is false.
C24_OneFrameAtATime ==
    /\ Cardinality(visualizer.pending) <= 1
    /\ TicksOf(visualizer.frame) <= 1
    /\ \A i \in 1..Len(visualizer.frame) :
          visualizer.frame[i] = "requestAnimationFrame" => i = Len(visualizer.frame)
    /\ TicksOf(visualizer.frame) > 0 => visualizer.framePlaying
    /\ visualizer.pending # {} => visualizer.isPlaying

\* the analyser was replaced and the player paused and resumed while frames
\* ran, and a frame with a tick is the last one executed
C24_Witness ==
    /\ visualizer.frames >= 4
    /\ visualizer.requested > visualizer.frames - 1
    /\ visualizer.analyser = 2
    /\ visualizer.isPlaying
    /\ TicksOf(visualizer.frame) = 1
    /\ Cardinality(visualizer.pending) = 1

-----------------------------------------------------------------------------
(* Properties of separateStems (SpecAudio).                                *)

-----------------------------------------------------------------------------
(* Properties of the confidence window (SpecWindow).                       *)

\* the histories of up to seven samples that end with the given window
EndingWith(window) ==
    {window} \cup {<<x>> \o window : x \in WindowLevels}
             \cup {<<x, y>> \o window : x, y \in WindowLevels}

\* val is more than 1.5 times prev
JumpsFrom(prev, val) == RatGT(val, RatMul(prev, Rat(3, 2)))

\* C26: the confidence depends only on the last 5 samples of the history:
\* every history of at least 5 samples that ends with the same 5 samples
\* gives the confidence that was computed, and for a percussive band the
\* confidence is 0.8 exactly when one of the 4 adjacent pairs inside the
\* window jumps, so a jump from the 6th-latest to the 5th-latest sample is
\* never counted as a transient.
C26_LastFiveOnly ==
    estimate # EmptyMapping =>
       \A b \in Bands :
          /\ Len(detectionHistory[b]) > RecentWindow
          /\ \A history \in EndingWith(Window(b)) :
                getDetectionConfidence(b, history) = estimate[b].confidence
          /\ b \in DrumTypes =>
                /\ estimate[b].confidence \in {Rat(8, 10), Rat(4, 10)}
                /\ estimate[b].confidence = Rat(8, 10) <=>
                      \E i \in 1..(RecentWindow - 1) :
                         JumpsFrom(Window(b)[i], Window(b)[i + 1])

\* the kick history jumps from 0 to 1 on entering the window and never
\* inside it, and the confidence computed is 0.4
C26_Witness ==
    /\ estimate # EmptyMapping
    /\ detectionHistory.kick[1] = Zero
    /\ detectionHistory.kick[2] = Rat(1, 1)
    /\ JumpsFrom(detectionHistory.kick[1], detectionHistory.kick[2])
    /\ detectionHistory.kick[6] = Rat(1, 2)
    /\ estimate.kick.confidence = Rat(4, 10)
    /\ estimate.vocals.confidence # getDetectionConfidence("vocals", <<Rat(1, 1)>>)

\* C27: for a percussive band with at least 5 samples, whenever the last-5
\* window contains a sample equal to 0 immediately followed by a sample
\* greater than 0 the confidence is 0.8, however small the following sample
\* is, and a window of all zeros gives 0.4.
C27_RiseFromZero ==
    estimate # EmptyMapping =>
       \A b \in DrumTypes :
          /\ Len(detectionHistory[b]) >= MinHistory
          /\ (\E i \in 1..(RecentWindow - 1) :
                 Window(b)[i] = Zero /\ RatGT(Window(b)[i + 1], Zero))
                => estimate[b].confidence = Rat(8, 10)
          /\ (\A i \in 1..RecentWindow : Window(b)[i] = Zero)
                => estimate[b].confidence = Rat(4, 10)

\* the only rise in the snare window is from 0 to 1/1000
C27_Witness ==
    /\ estimate # EmptyMapping
    /\ Window("snare") = <<Rat(1, 1), Rat(1, 2), Zero, Rat(1, 1000), Rat(1, 1000)>>
    /\ estimate.snare.confidence = Rat(8, 10)

-----------------------------------------------------------------------------
(* Properties of the detection rules (SpecDetect).                         *)

\* C28: in every result of detectInstruments an instrument with detected =
\* false has confidence exactly 0, an instrument with detected = true has a
\* confidence strictly greater than 0.5, and piano is never detected
\* (detected = false, confidence 0) whatever the band energies are.
C28_ConfidenceMatchesFlag ==
    detection # Null =>
       /\ "piano" \in DOMAIN detection
       /\ \A i \in DOMAIN detection :
             /\ ~detection[i].detected => detection[i].confidence = Zero
             /\ detection[i].detected => RatGT(detection[i].confidence, Rat(1, 2))
       /\ ~detection.piano.detected
       /\ detection.piano.confidence = Zero

\* guitar is detected from the lowest energies that pass its rule, with
\* every band but sub_bass at 0.6 or more
C28_Witness ==
    /\ detection # Null
    /\ frequencyBands.low_mids.energy = Rat(13, 20)
    /\ frequencyBands.mids.energy = Rat(12, 20)
    /\ frequencyBands.high_mids.energy = Rat(16, 20)
    /\ frequencyBands.highs.energy = Rat(12, 20)
    /\ detection.guitar = [detected |-> TRUE, confidence |-> Rat(5, 8)]
    /\ ~detection.vocals.detected
    /\ ~detection.synth.detected
    /\ ~detection.piano.detected

-----------------------------------------------------------------------------
(* Properties of the upload handler (SpecUpload).                          *)

ProcessAudioSettled == outcome # Null

ProcessAudioNotStarted == pc = "idle" /\ outcome = Null

\* at most one answer, and one once ffprobe has called back and processAudio
\* has settled
AnsweredOnce ==
    /\ Len(upload.responses) <= 1
    /\ (upload.probe = "failed" \/ (upload.probe = "succeeded" /\ ProcessAudioSettled))
          => Len(upload.responses) = 1

\* the success response is sent only after processAudio has settled, and
\* analysisUrl and instrumentDetection are null exactly when
\* processingComplete is false
SuccessAfterSettling(response) ==
    /\ response.success
    /\ upload.file
    /\ upload.probe = "succeeded"
    /\ ProcessAudioSettled
    /\ response.processingComplete = outcome.success
    /\ response.analysisUrl = Null <=> ~response.processingComplete
    /\ response.instrumentDetection = Null <=> ~response.processingComplete
    /\ response.processingComplete => response.instrumentDetection = detection

-----------------------------------------------------------------------------
(* Properties of the fallback analysis (SpecFallback).                     *)

\* C30: the fallback band-energy computation never divides by a zero-width
\* index range: for every musician frequency range and every analyser
\* bufferLength, the per-musician energy is a finite value in [0,1] and the
\* musician's animationPhase stays finite and strictly increases on every
\* frame.
C30_FallbackEnergyFinite ==
    visualizer.frames > 0 =>
       \A m \in MusicianTypes :
          /\ visualizer.instrumentEnergies[m].highIndex
                > visualizer.instrumentEnergies[m].lowIndex
          /\ ~IsNaN(visualizer.instrumentEnergies[m].energy)
          /\ InUnit(visualizer.instrumentEnergies[m].energy)
          /\ ~IsNaN(visualizer.animationPhase[m])
          /\ RatGT(visualizer.animationPhase[m], visualizer.previousPhase[m])

\* the part of C30 that the code keeps: the phase of every musician is finite
\* and grows on every frame, a musician without bins by 0.1
C30_PhaseAdvances ==
    visualizer.frames > 0 =>
       \A m \in MusicianTypes :
          /\ ~IsNaN(visualizer.animationPhase[m])
          /\ RatLE(RatAdd(visualizer.previousPhase[m], Rat(1, 10)),
                   visualizer.animationPhase[m])
          /\ IsNaN(visualizer.instrumentEnergies[m].energy) <=>
                visualizer.instrumentEnergies[m].highIndex
                   = visualizer.instrumentEnergies[m].lowIndex

=============================================================================
